---- MODULE Spec2Model ----
(***************************************************************************)
(* Usage / budget accounting of the Telegram bot (bot/usage.py).           *)
(*                                                                         *)
(* The persistence gateway is a row store reached through the Supabase     *)
(* client: tables whose rows are selected, inserted and updated by user    *)
(* id.  It stores the values it is given as they are (no column type       *)
(* rewrites a string, no key constraint rejects an insert).                *)
(* Every method of UsageTracker is a sequence of gateway calls             *)
(* (select, then update or insert); each gateway call is one atomic step   *)
(* and handlers of different updates may interleave between the steps      *)
(* (bot/main.py builds the application with concurrent_updates(True)).     *)
(*                                                                         *)
(* Money is counted in micro-dollars (1e-6 USD) so that the prices of the  *)
(* source (0.002, 0.016, 0.006 ...) are integers; Python's round(x, n) is  *)
(* the rounding of the exact quotient to the nearest multiple of 10^-n.    *)
(* ISO strings are sequences of one-character strings, so that isoformat,  *)
(* fromisoformat and the slices / prefix tests of the source are computed  *)
(* on characters.                                                          *)
(***************************************************************************)
EXTENDS Integers, Sequences, FiniteSets, TLC

\* ------------------------------------------------------------------------
\* Bounds of the model
\* ------------------------------------------------------------------------
NumUsers == 2
NumProcs == 2
MaxCalls == 2
MaxUserCalls == 1
MaxRaceCalls == 3
MaxSeqCalls == 3
MaxImageCalls == 4
MaxReportCalls == 4
LastDay == 4

Users == 1..NumUsers
Procs == 1..NumProcs

\* ------------------------------------------------------------------------
\* Calendar dates (datetime.date) and the clock
\* ------------------------------------------------------------------------
D(y, m, d) == [year |-> y, month |-> m, day |-> d]

\* The days on which the clock can stand, in increasing order: a year
\* change that keeps the month number, a new day within a month, a new
\* month, and a later year.
Calendar ==
  << D(2023, 1, 31), D(2024, 1, 30), D(2024, 1, 31), D(2024, 2, 1), D(2025, 2, 1) >>

Clock == 1..LastDay

Digits == << "0", "1", "2", "3", "4", "5", "6", "7", "8", "9" >>

Dig(n) == Digits[n + 1]

IsDigit(c) == \E n \in 0..9 : Digits[n + 1] = c

DigVal(c) == CHOOSE n \in 0..9 : Digits[n + 1] = c

Pad2(n) == << Dig((n \div 10) % 10), Dig(n % 10) >>

Pad4(n) == << Dig((n \div 1000) % 10), Dig((n \div 100) % 10),
              Dig((n \div 10) % 10), Dig(n % 10) >>

\* date.isoformat(): YYYY-MM-DD
isoformat(d) == Pad4(d.year) \o << "-" >> \o Pad2(d.month) \o << "-" >> \o Pad2(d.day)

\* datetime.isoformat(): YYYY-MM-DDTHH:MM:SS, the date followed by "T" and
\* the time of day.
TimesOfDay == { << "0", "9", ":", "3", "0", ":", "0", "0" >> }

datetime_isoformat(d, t) == isoformat(d) \o << "T" >> \o t

IsLeap(y) == (y % 4 = 0 /\ y % 100 # 0) \/ y % 400 = 0

DaysInMonth(y, m) ==
  IF m = 2 THEN (IF IsLeap(y) THEN 29 ELSE 28)
  ELSE IF m \in {4, 6, 9, 11} THEN 30 ELSE 31

\* date.fromisoformat(s): accepts exactly YYYY-MM-DD with a valid month
\* and day, raises ValueError on anything else (a string with a time
\* component included).
fromisoformat(s) ==
  IF /\ Len(s) = 10
     /\ s[5] = "-" /\ s[8] = "-"
     /\ \A i \in {1, 2, 3, 4, 6, 7, 9, 10} : IsDigit(s[i])
  THEN LET y == 1000 * DigVal(s[1]) + 100 * DigVal(s[2]) + 10 * DigVal(s[3]) + DigVal(s[4])
           m == 10 * DigVal(s[6]) + DigVal(s[7])
           d == 10 * DigVal(s[9]) + DigVal(s[10])
       IN  IF y >= 1 /\ m \in 1..12 /\ d >= 1 /\ d <= DaysInMonth(y, m)
           THEN [ok |-> TRUE, date |-> D(y, m, d)]
           ELSE [ok |-> FALSE, date |-> D(0, 0, 0)]
  ELSE [ok |-> FALSE, date |-> D(0, 0, 0)]

\* Python slice s[:n]
Prefix(s, n) == SubSeq(s, 1, IF n < Len(s) THEN n ELSE Len(s))

\* ------------------------------------------------------------------------
\* Persistence gateway: tables are sequences of rows in insertion order
\* ------------------------------------------------------------------------

\* table.select("*").eq("user_id", uid).execute().data
Select(table, uid) == SelectSeq(table, LAMBDA r : r.user_id = uid)

\* table.insert(row).execute()
Insert(table, row) == Append(table, row)

Merge(row, fields) ==
  [k \in DOMAIN row |-> IF k \in DOMAIN fields THEN fields[k] ELSE row[k]]

\* A variant without the filter on user_id.
UpdateAll(table, uid, fields) == [i \in DOMAIN table |-> Merge(table[i], fields)]

\* table.update(fields).eq("user_id", uid).execute()
Update(table, uid, fields) ==
  [i \in DOMAIN table |->
     IF table[i].user_id = uid THEN Merge(table[i], fields) ELSE table[i]]

RECURSIVE SumOver(_, _)
SumOver(f, S) ==
  IF S = {} THEN 0
  ELSE LET k == CHOOSE x \in S : TRUE IN f[k] + SumOver(f, S \ {k})

\* sum(d.values())
SumValues(map) == SumOver(map, DOMAIN map)

\* ------------------------------------------------------------------------
\* Results of a call
\* ------------------------------------------------------------------------
NoValue == [cost_today |-> 0, cost_month |-> 0, cost_all_time |-> 0]

Result(op, u, kind, exc, v, n) ==
  [op |-> op, user |-> u, kind |-> kind, exc |-> exc, value |-> v, total |-> n]

Returned(op, u, v) == Result(op, u, "return", "", v, 0)

ReturnedTotal(op, u, n) == Result(op, u, "return", "", NoValue, n)

Raised(op, u, e) == Result(op, u, "raise", e, NoValue, 0)

NoResult == Result("", 0, "none", "", NoValue, 0)

\* ------------------------------------------------------------------------
\* State
\* ------------------------------------------------------------------------
VARIABLES
  clock,          \* position of today's date in Calendar (date.today())
  column_default, \* what the gateway stores in a column an insert leaves out
  users,          \* table users
  current_costs,  \* table current_costs
  usage_history,  \* table usage_history
  user_settings,  \* table user_settings
  pc,             \* pc[p]: where handler p stands in the method it runs
  local,          \* local[p]: the local variables of the running method
  result,         \* result[p]: what the last finished call of p returned
  ledgerLog,      \* ledgerLog[u]: the accumulate events written for user u
  readLog,        \* readLog[u]: what the get_current_cost calls of u returned
  settingsLog,    \* settingsLog[u]: the settings updates written for user u
  calls,          \* calls[u]: number of calls started so far for user u
  env_ok,         \* SUPABASE_URL and SUPABASE_KEY are set and create_client works
  _instance,      \* SupabaseClient._instance
  clientLog,      \* what the SupabaseClient() calls of the process did
  enabled_plugins, \* config["plugins"] handed to PluginManager
  broken,         \* the plugin classes whose constructor raises
  plugins,        \* PluginManager.plugins: the loaded plugins, in order
  pluginLog,      \* what the PluginManager.call_function calls did
  config,         \* the attributes of the BotConfig object itself
  configLog       \* what the update_config / get_config calls did

tables == << users, current_costs, usage_history, user_settings >>

client == << env_ok, _instance, clientLog >>

bot == << enabled_plugins, broken, plugins, pluginLog, config, configLog >>

vars == << clock, column_default, users, current_costs, usage_history,
           user_settings, pc, local, result, ledgerLog, readLog, settingsLog,
           calls, client, bot >>

Today == Calendar[clock]

TotalCalls == SumValues(calls)

\* A JSON column: a mapping or null.  Unset: no insert has left a column
\* out yet, so the default of the schema has not shown.
Null == [kind |-> "null", map |-> << >>]

Unset == [kind |-> "unset", map |-> << >>]

Dict(f) == [kind |-> "dict", map |-> f]

EmptyDict == Dict(<< >>)

NoLocal ==
  [op |-> "", user |-> 0, today |-> D(0, 0, 0), cost |-> 0, qty |-> 0,
   sub |-> "", cc |-> << >>, uh |-> << >>, us |-> << >>,
   image_prices |-> << >>, tts_prices |-> << >>]

\* ------------------------------------------------------------------------
\* plugin_manager.py: the plugins and the dispatch of a function call
\* ------------------------------------------------------------------------
MaxEnabled == 2
MaxPluginCalls == 2
MaxConfigCalls == 3

\* The keys of plugin_mapping the model follows.
plugin_mapping == {"dalle", "ddg_translate", "deepl_translate"}

\* PLUGINS="" gives the list [""], a key plugin_mapping does not know.
PluginKeys == plugin_mapping \cup {""}

\* The function names a plugin's get_spec() declares.  DallE3 declares
\* generate_image; the two translators stand for two plugin classes that
\* declare one name.
get_spec(plugin_key) ==
  CASE plugin_key = "dalle" -> << "generate_image" >>
    [] plugin_key = "ddg_translate" -> << "translate" >>
    [] plugin_key = "deepl_translate" -> << "translate" >>
    [] OTHER -> << >>

FunctionNames == {"generate_image", "translate", "get_weather"}

SpecNames(plugin_key) ==
  {get_spec(plugin_key)[i] : i \in DOMAIN get_spec(plugin_key)}

\* for plugin_key in enabled_plugins: a known class is instantiated and
\* appended unless its constructor raises; an unknown key is skipped.
RECURSIVE initialize_plugins(_, _)
initialize_plugins(enabled, failing) ==
  IF enabled = << >> THEN << >>
  ELSE LET plugin_key == Head(enabled)
           loaded == IF plugin_key \in plugin_mapping
                        /\ plugin_key \notin failing
                     THEN << plugin_key >> ELSE << >>
       IN  loaded \o initialize_plugins(Tail(enabled), failing)

\* The position in self.plugins of the first plugin whose spec names the
\* function; 0 is None.
RECURSIVE FirstDeclaring(_, _, _)
FirstDeclaring(loaded, function_name, i) ==
  IF i > Len(loaded) THEN 0
  ELSE IF function_name \in SpecNames(loaded[i]) THEN i
  ELSE FirstDeclaring(loaded, function_name, i + 1)

get_plugin_by_function_name(loaded, function_name) ==
  FirstDeclaring(loaded, function_name, 1)

\* What plugin.execute does: it returns a result json.dumps can write, it
\* returns one json.dumps cannot write (a circular structure), or it
\* raises.
ExecuteOutcomes == {"result", "circular", "raise"}

ErrorJson(message) == [kind |-> "error", error |-> message, of |-> 0]

ResultJson(i) == [kind |-> "result", error |-> "", of |-> i]

\* A variant without the try/except around execute.
call_function_unguarded(loaded, function_name, outcome) ==
  LET plugin == get_plugin_by_function_name(loaded, function_name)
  IN  IF plugin = 0
      THEN [executed |-> << >>, exc |-> "",
            returned |-> ErrorJson("Function not found")]
      ELSE IF outcome = "result"
      THEN [executed |-> << plugin >>, exc |-> "",
            returned |-> ResultJson(plugin)]
      ELSE [executed |-> << plugin >>, exc |-> "Exception",
            returned |-> ErrorJson("")]

\* call_function: executed are the plugins whose execute ran, exc the
\* exception that leaves the call ("" when it returns), returned the JSON
\* text written.
call_function(loaded, function_name, outcome) ==
  LET plugin == get_plugin_by_function_name(loaded, function_name)
  IN  IF plugin = 0
      THEN [executed |-> << >>, exc |-> "",
            returned |-> ErrorJson("Function not found")]
      ELSE IF outcome = "result"
      THEN [executed |-> << plugin >>, exc |-> "",
            returned |-> ResultJson(plugin)]
      ELSE [executed |-> << plugin >>, exc |-> "",
            returned |-> ErrorJson("An error occurred during plugin execution.")]

\* ------------------------------------------------------------------------
\* config.py: the BotConfig object
\* ------------------------------------------------------------------------
\* The attributes __init__ sets, of which the model follows two.
ConfigFields == {"tts_model", "tts_voice"}

DefaultConfig == [key \in ConfigFields |->
                    IF key = "tts_model" THEN "tts-1" ELSE "alloy"]

\* The attributes an instance has through its class.
ClassAttributes == {"update_config", "get_config"}

ConfigKeys == ConfigFields \cup ClassAttributes \cup {"no_such_key"}

ConfigValues == {"tts-1-hd", "nova"}

BoundMethod(key) ==
  IF key = "update_config" THEN "<bound method BotConfig.update_config>"
  ELSE "<bound method BotConfig.get_config>"

hasattr(obj, key) == key \in DOMAIN obj \/ key \in ClassAttributes

getattr(obj, key, default) ==
  IF key \in DOMAIN obj THEN obj[key]
  ELSE IF key \in ClassAttributes THEN BoundMethod(key)
  ELSE default

setattr(obj, key, value) ==
  [k \in DOMAIN obj \cup {key} |-> IF k = key THEN value ELSE obj[k]]

update_config(obj, key, value) ==
  IF hasattr(obj, key)
  THEN [obj |-> setattr(obj, key, value), exc |-> ""]
  ELSE [obj |-> obj, exc |-> "AttributeError"]

get_config(obj, key) == getattr(obj, key, "None")

Init ==
  /\ clock = 1
  /\ column_default = Unset
  /\ users = << >>
  /\ current_costs = << >>
  /\ usage_history = << >>
  /\ user_settings = << >>
  /\ pc = [p \in Procs |-> "idle"]
  /\ local = [p \in Procs |-> NoLocal]
  /\ result = [p \in Procs |-> NoResult]
  /\ ledgerLog = [u \in Users |-> << >>]
  /\ readLog = [u \in Users |-> << >>]
  /\ settingsLog = [u \in Users |-> << >>]
  /\ calls = [u \in Users |-> 0]
  /\ env_ok = TRUE
  /\ _instance = "client"
  /\ clientLog = << >>
  /\ enabled_plugins = << >>
  /\ broken = {}
  /\ plugins = << >>
  /\ pluginLog = << >>
  /\ config = DefaultConfig
  /\ configLog = << >>

\* The clock moves to a later day.
Tick ==
  /\ \E c \in Clock : c > clock /\ clock' = c
  /\ UNCHANGED << column_default, tables, pc, local, result, ledgerLog, readLog, settingsLog, client, bot, calls >>

\* A handler starts a method: handlers are taken in order.
Begin(p, label, l) ==
  /\ pc[p] = "idle"
  /\ \A q \in Procs : q < p => pc[q] # "idle"
  /\ calls' = [calls EXCEPT ![l.user] = @ + 1]
  /\ pc' = [pc EXCEPT ![p] = label]
  /\ local' = [local EXCEPT ![p] = l]
  /\ result' = [result EXCEPT ![p] = NoResult]

\* The method returns or raises to its caller.
Finish(p, r) ==
  /\ pc' = [pc EXCEPT ![p] = "idle"]
  /\ local' = [local EXCEPT ![p] = NoLocal]
  /\ result' = [result EXCEPT ![p] = r]

Goto(p, label) ==
  /\ pc' = [pc EXCEPT ![p] = label]
  /\ UNCHANGED result

\* A handler starts a method that returns or raises before its first
\* gateway call.
Complete(p, u, r) ==
  /\ pc[p] = "idle"
  /\ \A q \in Procs : q < p => pc[q] # "idle"
  /\ calls' = [calls EXCEPT ![u] = @ + 1]
  /\ result' = [result EXCEPT ![p] = r]
  /\ UNCHANGED << pc, local >>

\* ------------------------------------------------------------------------
\* SupabaseClient and UsageTracker.__init__
\* ------------------------------------------------------------------------

\* SupabaseClient._instance: None, an instance whose supabase attribute
\* was never set, or an instance holding the client.
Instances == {"None", "no_client", "client"}

\* SupabaseClient.__new__: the new value of _instance and the exception
\* raised, if any.  The instance is stored before the client is created.
\* A variant without the test of _instance: every call builds an instance.
SupabaseClient_new_each_time(inst, ok) ==
  IF ok THEN [inst |-> "client", exc |-> "", allocated |-> 1, created |-> 1]
        ELSE [inst |-> "no_client", exc |-> "ValueError", allocated |-> 1, created |-> 0]

\* allocated: super().__new__ made an object; created: create_client
\* returned a client.
SupabaseClient_new(inst, ok) ==
  IF inst = "None"
  THEN IF ok THEN [inst |-> "client", exc |-> "", allocated |-> 1, created |-> 1]
             ELSE [inst |-> "no_client", exc |-> "ValueError", allocated |-> 1, created |-> 0]
  ELSE [inst |-> inst, exc |-> "", allocated |-> 0, created |-> 0]

\* SupabaseClient().client: __new__, then the property reads
\* _instance.supabase.
SupabaseClient_client(inst, ok) ==
  LET n == SupabaseClient_new(inst, ok)
  IN  IF n.exc # "" THEN n
      ELSE IF n.inst = "client" THEN n
      ELSE [n EXCEPT !.exc = "AttributeError"]

\* The objects super().__new__ has made so far; the last one is the one
\* _instance holds.
Allocated(log) == SumValues([i \in DOMAIN log |-> log[i].allocated])

\* The log after one more SupabaseClient() call.
ClientLogged(log, n) ==
  Append(log, [exc |-> n.exc, inst |-> n.inst, object |-> Allocated(log) + n.allocated,
               allocated |-> n.allocated, created |-> n.created])

\* The tracker object a constructor call hands to its caller: supabase
\* tells whether its attribute self.supabase was set.
Tracker(has_supabase) == [tracker |-> "UsageTracker", supabase |-> has_supabase]

NoTracker == [tracker |-> "None", supabase |-> FALSE]

\* UsageTracker(user_id, user_name): the exception of SupabaseClient() is
\* logged, the object is returned.
Call_UsageTracker(p, u) ==
  /\ LET c == SupabaseClient_client(_instance, env_ok)
     IN  /\ _instance' = c.inst
         /\ clientLog' = ClientLogged(clientLog, SupabaseClient_new(_instance, env_ok))
         /\ Complete(p, u, Returned("UsageTracker", u, Tracker(c.exc = "")))
  /\ UNCHANGED << clock, column_default, tables, ledgerLog, readLog, settingsLog, env_ok, bot >>

\* ------------------------------------------------------------------------
\* UsageTracker.create / load_initial_data
\* ------------------------------------------------------------------------
UserName(u) == << "u", Dig(u % 10) >>

\* create: cls(user_id, user_name), then load_initial_data; without
\* self.supabase its first statement raises AttributeError, which create
\* logs before it returns None.
Call_create(p, u) ==
  /\ LET c == SupabaseClient_client(_instance, env_ok)
     IN  /\ _instance' = c.inst
         /\ clientLog' = ClientLogged(clientLog, SupabaseClient_new(_instance, env_ok))
         /\ IF c.exc = ""
            THEN Begin(p, "load_users_read", [NoLocal EXCEPT !.op = "create", !.user = u])
            ELSE Complete(p, u, Returned("create", u, NoTracker))
  /\ UNCHANGED << clock, column_default, tables, ledgerLog, readLog, settingsLog, env_ok, bot >>

LoadUsersRead(p) ==
  /\ pc[p] = "load_users_read"
  /\ IF Select(users, local[p].user) = << >>
     THEN Goto(p, "load_users_insert")
     ELSE Goto(p, "init_cost_read")
  /\ UNCHANGED << clock, column_default, tables, local, ledgerLog, readLog, settingsLog, client, bot, calls >>

LoadUsersInsert(p) ==
  /\ pc[p] = "load_users_insert"
  /\ users' = Insert(users, [user_id |-> local[p].user, user_name |-> UserName(local[p].user)])
  /\ Goto(p, "init_cost_read")
  /\ UNCHANGED << clock, column_default, current_costs, usage_history,
                  user_settings, local, ledgerLog, readLog, settingsLog, client, bot, calls >>

\* initialize_or_fetch_current_cost: the select
InitCostRead(p) ==
  /\ pc[p] = "init_cost_read"
  /\ local' = [local EXCEPT ![p].cc = Select(current_costs, local[p].user)]
  /\ IF Select(current_costs, local[p].user) = << >>
     THEN Goto(p, "init_cost_insert")
     ELSE Goto(p, "fetch_hist_read")
  /\ UNCHANGED << clock, column_default, tables, ledgerLog, readLog, settingsLog, client, bot, calls >>

InitialCostRecord(u, now) ==
  [user_id |-> u, day |-> 0, month |-> 0, all_time |-> 0, last_update |-> now]

\* initialize_or_fetch_current_cost: the insert for a new user
InitCostInsert(p) ==
  /\ pc[p] = "init_cost_insert"
  /\ \E t \in TimesOfDay :
       current_costs' = Insert(current_costs,
                               InitialCostRecord(local[p].user, datetime_isoformat(Today, t)))
  /\ Goto(p, "fetch_hist_read")
  /\ UNCHANGED << clock, column_default, users, usage_history, user_settings,
                  local, ledgerLog, readLog, settingsLog, client, bot, calls >>

EmptyHistory(u, today) ==
  [user_id |-> u, date |-> isoformat(today), chat_tokens |-> EmptyDict,
   transcription_seconds |-> EmptyDict, number_images |-> EmptyDict,
   tts_characters |-> EmptyDict, vision_tokens |-> EmptyDict]

\* fetch_usage_history: the select
FetchHistRead(p) ==
  /\ pc[p] = "fetch_hist_read"
  /\ IF Select(usage_history, local[p].user) # << >>
     THEN Finish(p, Returned("create", local[p].user, NoValue))
     ELSE Goto(p, "fetch_hist_insert") /\ UNCHANGED local
  /\ UNCHANGED << clock, column_default, tables, ledgerLog, readLog, settingsLog, client, bot, calls >>

\* fetch_usage_history: the insert of an empty history
FetchHistInsert(p) ==
  /\ pc[p] = "fetch_hist_insert"
  /\ usage_history' = Insert(usage_history, EmptyHistory(local[p].user, Today))
  /\ Finish(p, Returned("create", local[p].user, NoValue))
  /\ UNCHANGED << clock, column_default, users, current_costs, user_settings,
                  ledgerLog, readLog, settingsLog, client, bot, calls >>

\* ------------------------------------------------------------------------
\* add_current_costs
\* ------------------------------------------------------------------------
Amounts == {0, 2000000}

\* add_current_costs(request_cost): today = date.today()
Call_add_current_costs(p, u) ==
  \E a \in Amounts :
    /\ Begin(p, "acc_read",
             [NoLocal EXCEPT !.op = "add_current_costs", !.user = u,
                             !.today = Today, !.cost = a])
    /\ UNCHANGED << clock, column_default, tables, ledgerLog, readLog, settingsLog, client, bot >>

\* the select of add_current_costs
AccRead(p) ==
  /\ pc[p] = "acc_read"
  /\ local' = [local EXCEPT ![p].cc = Select(current_costs, local[p].user)]
  /\ Goto(p, "acc_write")
  /\ UNCHANGED << clock, column_default, tables, ledgerLog, readLog, settingsLog, client, bot, calls >>

\* today.month == last_update.month
SameMonth(today, last_update) == today.month = last_update.month

\* A variant that restarts the month in a new month but keeps adding to
\* the day.
RolloverMonthOnly(row, today, request_cost) ==
  LET last_update == fromisoformat(row.last_update).date
  IN  [user_id |-> row.user_id, day |-> row.day + request_cost,
       month |-> IF SameMonth(today, last_update) THEN row.month + request_cost
                 ELSE request_cost,
       all_time |-> row.all_time + request_cost, last_update |-> isoformat(today)]

\* The record add_current_costs writes back for the record it read.
Rollover(row, today, request_cost) ==
  LET last_update == fromisoformat(row.last_update).date
      all_time == row.all_time + request_cost
      day == IF today = last_update THEN row.day + request_cost ELSE request_cost
      month == IF today = last_update THEN row.month + request_cost
               ELSE IF SameMonth(today, last_update) THEN row.month + request_cost
               ELSE request_cost
  IN  [user_id |-> row.user_id, day |-> day, month |-> month,
       all_time |-> all_time, last_update |-> isoformat(today)]

NewCostRecord(u, today, request_cost) ==
  [user_id |-> u, day |-> request_cost, month |-> request_cost,
   all_time |-> request_cost, last_update |-> isoformat(today)]

\* What follows add_current_costs in the calling method.
AfterAcc(p) ==
  IF local[p].op = "add_current_costs"
  THEN Finish(p, Returned(local[p].op, local[p].user, NoValue))
  ELSE Goto(p, "hist_read") /\ UNCHANGED local

Logged(p) ==
  [ledgerLog EXCEPT ![local[p].user] =
     Append(@, [date |-> local[p].today, amount |-> local[p].cost, op |-> local[p].op,
                qty |-> local[p].qty, sub |-> local[p].sub])]

\* the rest of add_current_costs on the records `data`: parse, roll over,
\* update or insert
AccWriteFrom(p, data) ==
  /\ pc[p] = "acc_write"
  /\ LET l == local[p]
         u == l.user
     IN  IF data # << >>
         THEN IF fromisoformat(data[1].last_update).ok
              THEN /\ current_costs' = Update(current_costs, u, Rollover(data[1], l.today, l.cost))
                   /\ ledgerLog' = Logged(p)
                   /\ AfterAcc(p)
              ELSE /\ Finish(p, Raised(l.op, u, "ValueError"))
                   /\ UNCHANGED << current_costs, ledgerLog >>
         ELSE /\ current_costs' = Insert(current_costs, NewCostRecord(u, l.today, l.cost))
              /\ ledgerLog' = Logged(p)
              /\ AfterAcc(p)
  /\ UNCHANGED << clock, column_default, users, usage_history, user_settings,
                  calls, readLog, settingsLog, client, bot >>

\* A variant that reads the stored record again in the step that writes.
AccWriteAtomic(p) == AccWriteFrom(p, Select(current_costs, local[p].user))

\* add_current_costs writes back from the records its select returned
AccWrite(p) == AccWriteFrom(p, local[p].cc)

\* ------------------------------------------------------------------------
\* get_current_cost
\* ------------------------------------------------------------------------
Call_get_current_cost(p, u) ==
  /\ Begin(p, "gcc_read",
           [NoLocal EXCEPT !.op = "get_current_cost", !.user = u, !.today = Today])
  /\ UNCHANGED << clock, column_default, tables, ledgerLog, readLog, settingsLog, client, bot >>

\* A variant that compares the month number only.
get_current_cost_by_month_number(data, today) ==
  IF data # << >>
  THEN LET current_cost == data[1]
           parsed == fromisoformat(current_cost.last_update)
           last_update == isoformat(parsed.date)
       IN  IF ~parsed.ok THEN [kind |-> "raise", exc |-> "ValueError", value |-> NoValue]
           ELSE [kind |-> "return", exc |-> "",
                 value |-> [cost_today |-> IF today = last_update THEN current_cost.day ELSE 0,
                            cost_month |-> IF SubSeq(today, 6, 7) = SubSeq(last_update, 6, 7)
                                           THEN current_cost.month ELSE 0,
                            cost_all_time |-> current_cost.all_time]]
  ELSE [kind |-> "return", exc |-> "", value |-> NoValue]

get_current_cost(data, today) ==
  IF data # << >>
  THEN LET current_cost == data[1]
           parsed == fromisoformat(current_cost.last_update)
           last_update == isoformat(parsed.date)
       IN  IF ~parsed.ok THEN [kind |-> "raise", exc |-> "ValueError", value |-> NoValue]
           ELSE [kind |-> "return", exc |-> "",
                 value |-> [cost_today |-> IF today = last_update THEN current_cost.day ELSE 0,
                            cost_month |-> IF Prefix(today, 7) = Prefix(last_update, 7)
                                           THEN current_cost.month ELSE 0,
                            cost_all_time |-> current_cost.all_time]]
  ELSE [kind |-> "return", exc |-> "", value |-> NoValue]

\* A variant that also stamps the record with the date of the read.
GccReadTouch(p) ==
  /\ pc[p] = "gcc_read"
  /\ LET l == local[p]
         r == get_current_cost(Select(current_costs, l.user), isoformat(l.today))
     IN  /\ Finish(p, Result(l.op, l.user, r.kind, r.exc, r.value, 0))
         /\ readLog' = [readLog EXCEPT ![l.user] =
                          Append(@, [today |-> l.today, written |-> Len(ledgerLog[l.user]),
                                     kind |-> r.kind, exc |-> r.exc, value |-> r.value])]
         /\ current_costs' = UpdateAll(current_costs, l.user,
                                       [last_update |-> isoformat(l.today)])
  /\ UNCHANGED << clock, column_default, users, usage_history, user_settings,
                  ledgerLog, settingsLog, client, bot, calls >>

GccRead(p) ==
  /\ pc[p] = "gcc_read"
  /\ LET l == local[p]
         r == get_current_cost(Select(current_costs, l.user), isoformat(l.today))
     IN  /\ Finish(p, Result(l.op, l.user, r.kind, r.exc, r.value, 0))
         /\ readLog' = [readLog EXCEPT ![l.user] =
                          Append(@, [today |-> l.today, written |-> Len(ledgerLog[l.user]),
                                     kind |-> r.kind, exc |-> r.exc, value |-> r.value])]
  /\ UNCHANGED << clock, column_default, tables, ledgerLog, settingsLog, client, bot, calls >>

\* ------------------------------------------------------------------------
\* Pricing
\* ------------------------------------------------------------------------

\* Prices in micro-dollars: per 1000 chat tokens, per image of each size,
\* per minute of transcription, per 1000 vision tokens, per 1000 characters
\* of each TTS model.
TokenPrice == 2000

ImagePrices == << 16000, 18000, 20000 >>

MinutePrice == 6000

VisionTokenPrice == 10000

TtsModels == << "tts-1", "tts-1-hd" >>

TtsPriceList == << 15000, 30000 >>

Cent == 10000

\* round(num / den, n) for the unit 10^-n: the nearest multiple of unit,
\* a tie going to the even multiple.
Round(num, den, unit) ==
  LET m == den * unit
      q == num \div m
      r == num % m
  IN  IF 2 * r < m THEN q * unit
      ELSE IF 2 * r > m THEN (q + 1) * unit
      ELSE IF q % 2 = 0 THEN q * unit ELSE (q + 1) * unit

\* round(float(tokens) * tokens_price / 1000, 6)
ChatCost(tokens) == Round(tokens * TokenPrice, 1000, 1)

\* A variant that charges the cost without rounding it.
TranscriptionCostRaw(seconds) == (seconds * MinutePrice) \div 60

\* round(seconds * minute_price / 60, 2)
TranscriptionCost(seconds) == Round(seconds * MinutePrice, 60, Cent)

\* round(tokens * vision_token_price / 1000, 2)
VisionCost(tokens) == Round(tokens * VisionTokenPrice, 1000, Cent)

IndexOf(seq, x) == CHOOSE i \in DOMAIN seq : seq[i] = x

\* tts_prices.get(tts_model, 0)
TtsPrice(tts_model) ==
  IF \E i \in DOMAIN TtsModels : TtsModels[i] = tts_model
  THEN TtsPriceList[IndexOf(TtsModels, tts_model)] ELSE 0

\* round(text_length * price / 1000, 2)
TtsCost(text_length, tts_model) == Round(text_length * TtsPrice(tts_model), 1000, Cent)

Sizes == << "256x256", "512x512", "1024x1024" >>

\* image_prices[sizes.index(image_size)]
ImageCost(image_size) == ImagePrices[IndexOf(Sizes, image_size)]

\* ------------------------------------------------------------------------
\* add_chat_tokens, add_image_request, add_vision_tokens, add_tts_request,
\* add_transcription_seconds
\* ------------------------------------------------------------------------
ChatTokenCounts == {1500}

ImageSizes == {"256x256", "1024x1024"}

VisionTokenCounts == {400}

TextLengths == {200}

SecondCounts == {30, 90}

\* Arguments outside the size list and outside the TTS price table.
UnknownSizes == {"2048x2048"}

UnknownTtsModels == {"tts-2"}

StartAdd(p, u, op, cost, qty, sub) ==
  /\ Begin(p, "acc_read",
           [NoLocal EXCEPT !.op = op, !.user = u, !.today = Today,
                           !.cost = cost, !.qty = qty, !.sub = sub])
  /\ UNCHANGED << clock, column_default, tables, ledgerLog, readLog, settingsLog, client, bot >>

Call_add_chat_tokens(p, u) ==
  \E tokens \in ChatTokenCounts :
    StartAdd(p, u, "add_chat_tokens", ChatCost(tokens), tokens, "")

\* add_image_request(image_size): sizes.index(image_size) raises ValueError
\* for a string that is not in sizes, before anything is read or written.
add_image_request(p, u, image_size) ==
  IF \E i \in DOMAIN Sizes : Sizes[i] = image_size
  THEN StartAdd(p, u, "add_image_request", ImageCost(image_size), 1, image_size)
  ELSE /\ Complete(p, u, Raised("add_image_request", u, "ValueError"))
       /\ UNCHANGED << clock, column_default, tables, ledgerLog, readLog, settingsLog, client, bot >>

Call_add_image_request(p, u) ==
  \E image_size \in ImageSizes : add_image_request(p, u, image_size)

Call_add_vision_tokens(p, u) ==
  \E tokens \in VisionTokenCounts :
    StartAdd(p, u, "add_vision_tokens", VisionCost(tokens), tokens, "")

\* add_tts_request(text_length, tts_model, tts_prices)
add_tts_request(p, u, text_length, tts_model) ==
  StartAdd(p, u, "add_tts_request", TtsCost(text_length, tts_model), text_length, tts_model)

Call_add_tts_request(p, u) ==
  \E text_length \in TextLengths, i \in DOMAIN TtsModels :
    add_tts_request(p, u, text_length, TtsModels[i])

Call_add_transcription_seconds(p, u) ==
  \E seconds \in SecondCounts :
    StartAdd(p, u, "add_transcription_seconds", TranscriptionCost(seconds), seconds, "")

\* the select of usage_history in an add_* method
HistRead(p) ==
  /\ pc[p] = "hist_read"
  /\ local' = [local EXCEPT ![p].uh = Select(usage_history, local[p].user)]
  /\ Goto(p, "hist_write")
  /\ UNCHANGED << clock, column_default, tables, ledgerLog, readLog, settingsLog, client, bot, calls >>

\* d.get(key, default)
Get(map, key, default) == IF key \in DOMAIN map THEN map[key] ELSE default

\* d[key] = value
Put(map, key, value) ==
  [k \in DOMAIN map \cup {key} |-> IF k = key THEN value ELSE map[k]]

\* A variant that stores the quantity of the request.
SetOnDate(map, today, qty) == Put(map, today, qty)

\* chat_tokens[today] = chat_tokens.get(today, 0) + tokens
\* (the same statement for vision tokens and transcription seconds)
AddOnDate(map, today, qty) == Put(map, today, Get(map, today, 0) + qty)

\* A variant that marks the size as requested.
MarkImage(map, today, requested_size) ==
  Put(map, today, [Get(map, today, << 0, 0, 0 >>) EXCEPT ![requested_size] = 1])

\* current_day_images[requested_size] += 1
AddImage(map, today, requested_size) ==
  Put(map, today, [Get(map, today, << 0, 0, 0 >>) EXCEPT ![requested_size] = @ + 1])

HasModel(tts_characters, tts_model) ==
  \E i \in DOMAIN tts_characters : tts_characters[i].model = tts_model

\* tts_characters maps a model to its dates, in the order the models came
AddTts(tts_characters, tts_model, today, text_length) ==
  LET withModel == IF HasModel(tts_characters, tts_model) THEN tts_characters
                   ELSE Append(tts_characters, [model |-> tts_model, dates |-> << >>])
  IN  [i \in DOMAIN withModel |->
         IF withModel[i].model = tts_model
         THEN [withModel[i] EXCEPT !.dates = AddOnDate(@, today, text_length)]
         ELSE withModel[i]]

Category(op) ==
  CASE op = "add_chat_tokens" -> "chat_tokens"
    [] op = "add_image_request" -> "number_images"
    [] op = "add_vision_tokens" -> "vision_tokens"
    [] op = "add_tts_request" -> "tts_characters"
    [] op = "add_transcription_seconds" -> "transcription_seconds"

\* The new value of the column the method updates.
Recorded(l, map) ==
  LET today == isoformat(l.today)
  IN  CASE l.op = "add_image_request" -> AddImage(map, today, IndexOf(Sizes, l.sub))
        [] l.op = "add_tts_request" -> AddTts(map, l.sub, today, l.qty)
        [] OTHER -> AddOnDate(map, today, l.qty)

\* The row an add_* method inserts when the user has no history: user_id
\* and its own column; the gateway fills the other columns.
FirstHistory(l, default) ==
  LET cat == Category(l.op)
  IN  [k \in {"user_id", "date", "chat_tokens", "transcription_seconds",
              "number_images", "tts_characters", "vision_tokens"} |->
         IF k = "user_id" THEN l.user
         ELSE IF k = "date" THEN << >>
         ELSE IF k = cat THEN Dict(Recorded(l, << >>))
         ELSE default]

\* the update or insert of usage_history in an add_* method
HistWrite(p) ==
  /\ pc[p] = "hist_write"
  /\ LET l == local[p]
         cat == Category(l.op)
     IN  IF l.uh # << >>
         THEN IF l.uh[1][cat].kind = "dict"
              THEN /\ usage_history' =
                        Update(usage_history, l.user, cat :> Dict(Recorded(l, l.uh[1][cat].map)))
                   /\ Finish(p, Returned(l.op, l.user, NoValue))
                   /\ UNCHANGED column_default
              ELSE /\ Finish(p, Raised(l.op, l.user, "AttributeError"))
                   /\ UNCHANGED << usage_history, column_default >>
         ELSE /\ \E d \in {Null, EmptyDict} :
                   /\ column_default \in {Unset, d}
                   /\ column_default' = d
                   /\ usage_history' = Insert(usage_history, FirstHistory(l, d))
              /\ Finish(p, Returned(l.op, l.user, NoValue))
  /\ UNCHANGED << clock, users, current_costs, user_settings, ledgerLog, readLog, settingsLog, client, bot, calls >>

\* The gateway call of the select of usage_history raises (.execute()
\* fails): the add_* method has no handler, its caller gets the error.
HistReadFails(p) ==
  /\ pc[p] = "hist_read"
  /\ Finish(p, Raised(local[p].op, local[p].user, "APIError"))
  /\ UNCHANGED << clock, column_default, tables, ledgerLog, readLog, settingsLog, client, bot, calls >>

\* A variant that takes the charge back when the history cannot be written.
HistWriteFailsRollback(p) ==
  /\ pc[p] = "hist_write"
  /\ Finish(p, Raised(local[p].op, local[p].user, "APIError"))
  /\ current_costs' =
       [i \in DOMAIN current_costs |->
          IF current_costs[i].user_id = local[p].user
          THEN [current_costs[i] EXCEPT !.day = @ - local[p].cost,
                                        !.month = @ - local[p].cost,
                                        !.all_time = @ - local[p].cost]
          ELSE current_costs[i]]
  /\ UNCHANGED << clock, column_default, users, usage_history, user_settings,
                  ledgerLog, readLog, settingsLog, client, bot, calls >>

\* The gateway call of the update or insert of usage_history raises.
HistWriteFails(p) ==
  /\ pc[p] = "hist_write"
  /\ Finish(p, Raised(local[p].op, local[p].user, "APIError"))
  /\ UNCHANGED << clock, column_default, tables, ledgerLog, readLog, settingsLog, client, bot, calls >>

\* ------------------------------------------------------------------------
\* get_current_token_usage, get_current_image_count,
\* get_current_vision_tokens, get_current_tts_usage,
\* get_current_transcription_duration
\* ------------------------------------------------------------------------

\* day.startswith(month_str)
startswith(s, prefix) == Len(s) >= Len(prefix) /\ SubSeq(s, 1, Len(prefix)) = prefix

\* A variant that keeps the year only.
YearPrefix(today_str) == Prefix(today_str, 4)

\* month_str = today_str[:7]
MonthPrefix(today_str) == Prefix(today_str, 7)

\* sum(v for day, v in d.items() if day.startswith(month_str))
SumMonth(map, month_str) ==
  SumOver(map, {day \in DOMAIN map : startswith(day, month_str)})

\* d.get(today_str, 0) and the sum of the month, for a date-keyed mapping
DayAndMonth(map, today_str) ==
  [usage_day |-> Get(map, today_str, 0),
   usage_month |-> SumMonth(map, MonthPrefix(today_str))]

\* sum(images) of every day
ImagesPerDay(number_images) ==
  [day \in DOMAIN number_images |-> SumValues(number_images[day])]

\* A variant that reports the first model of the history only.
TtsFirstModel(tts_characters, today_str) ==
  IF tts_characters = << >> THEN [usage_day |-> 0, usage_month |-> 0]
  ELSE DayAndMonth(Head(tts_characters).dates, today_str)

\* for tts_model, dates in tts_characters.items(): both totals grow by
\* the day and the month of the model
RECURSIVE TtsDayAndMonth(_, _)
TtsDayAndMonth(tts_characters, today_str) ==
  IF tts_characters = << >> THEN [usage_day |-> 0, usage_month |-> 0]
  ELSE LET one == DayAndMonth(Head(tts_characters).dates, today_str)
           rest == TtsDayAndMonth(Tail(tts_characters), today_str)
       IN  [usage_day |-> one.usage_day + rest.usage_day,
            usage_month |-> one.usage_month + rest.usage_month]

\* A variant that takes the remainder of the day for the month as well.
DurationOfDay(seconds) ==
  [minutes_day |-> seconds.usage_day \div 60, seconds_day |-> seconds.usage_day % 60,
   minutes_month |-> seconds.usage_month \div 60,
   seconds_month |-> seconds.usage_day % 60]

\* divmod(seconds, 60) of the day and of the month
Duration(seconds) ==
  [minutes_day |-> seconds.usage_day \div 60, seconds_day |-> seconds.usage_day % 60,
   minutes_month |-> seconds.usage_month \div 60,
   seconds_month |-> seconds.usage_month % 60]

ReadCategory(op) ==
  CASE op = "get_current_token_usage" -> "chat_tokens"
    [] op = "get_current_image_count" -> "number_images"
    [] op = "get_current_vision_tokens" -> "vision_tokens"
    [] op = "get_current_tts_usage" -> "tts_characters"
    [] op = "get_current_transcription_duration" -> "transcription_seconds"

\* What the get_current_* method `op` computes from the selected rows.
get_current_usage(op, data, today_str) ==
  LET column == IF data = << >> THEN EmptyDict ELSE data[1][ReadCategory(op)]
      map == column.map
      usage == CASE op = "get_current_image_count" -> DayAndMonth(ImagesPerDay(map), today_str)
                 [] op = "get_current_tts_usage" -> TtsDayAndMonth(map, today_str)
                 [] OTHER -> DayAndMonth(map, today_str)
  IN  IF column.kind # "dict"
      THEN [kind |-> "raise", exc |-> "AttributeError", value |-> NoValue]
      ELSE [kind |-> "return", exc |-> "",
            value |-> IF op = "get_current_transcription_duration"
                      THEN Duration(usage) ELSE usage]

StartRead(p, u, op) ==
  /\ Begin(p, "usage_read", [NoLocal EXCEPT !.op = op, !.user = u, !.today = Today])
  /\ UNCHANGED << clock, column_default, tables, ledgerLog, readLog, settingsLog, client, bot >>

Call_get_current_token_usage(p, u) == StartRead(p, u, "get_current_token_usage")

Call_get_current_image_count(p, u) == StartRead(p, u, "get_current_image_count")

Call_get_current_vision_tokens(p, u) == StartRead(p, u, "get_current_vision_tokens")

Call_get_current_tts_usage(p, u) == StartRead(p, u, "get_current_tts_usage")

Call_get_current_transcription_duration(p, u) ==
  StartRead(p, u, "get_current_transcription_duration")

\* the select of a get_current_* method and what it returns
UsageRead(p) ==
  /\ pc[p] = "usage_read"
  /\ LET l == local[p]
         r == get_current_usage(l.op, Select(usage_history, l.user), isoformat(l.today))
     IN  Finish(p, Result(l.op, l.user, r.kind, r.exc, r.value, 0))
  /\ UNCHANGED << clock, column_default, tables, ledgerLog, readLog, settingsLog, client, bot, calls >>

\* ------------------------------------------------------------------------
\* initialize_all_time_cost
\* ------------------------------------------------------------------------
\* [sum(values) for values in zip(*number_images.values())]
TotalImages(number_images) ==
  IF DOMAIN number_images = {} THEN << >>
  ELSE [i \in 1..3 |-> SumValues([k \in DOMAIN number_images |-> number_images[k][i]])]

Min(a, b) == IF a < b THEN a ELSE b

\* sum(x * price for x, price in zip(xs, prices))
ZipCost(xs, prices) ==
  LET n == Min(Len(xs), Len(prices))
  IN  SumValues([i \in 1..n |-> xs[i] * prices[i]])

initialize_all_time_cost(data, image_prices_list, tts_prices_list) ==
  IF data = << >> THEN [kind |-> "return", exc |-> "", total |-> 0]
  ELSE
    LET h == data[1]
    IN  IF \E c \in {"chat_tokens", "number_images", "transcription_seconds",
                     "vision_tokens", "tts_characters"} : h[c].kind # "dict"
        THEN [kind |-> "raise", exc |-> "AttributeError", total |-> 0]
        ELSE
          LET token_cost == Round(SumValues(h.chat_tokens.map) * TokenPrice, 1000, 1)
              image_cost == ZipCost(TotalImages(h.number_images.map), image_prices_list)
              transcription_cost ==
                Round(SumValues(h.transcription_seconds.map) * MinutePrice, 60, Cent)
              vision_cost ==
                Round(SumValues(h.vision_tokens.map) * VisionTokenPrice, 1000, Cent)
              tts == h.tts_characters.map
              tts_cost ==
                ZipCost([i \in DOMAIN tts |-> SumValues(tts[i].dates)], tts_prices_list) \div 1000
          IN  [kind |-> "return", exc |-> "",
               total |-> token_cost + image_cost + transcription_cost + vision_cost + tts_cost]

\* initialize_all_time_cost(image_prices=..., tts_prices=...)
StartRecompute(p, u, image_prices_list, tts_prices_list) ==
  /\ Begin(p, "iatc_read",
           [NoLocal EXCEPT !.op = "initialize_all_time_cost", !.user = u,
                           !.image_prices = image_prices_list,
                           !.tts_prices = tts_prices_list])
  /\ UNCHANGED << clock, column_default, tables, ledgerLog, readLog, settingsLog, client, bot >>

\* initialize_all_time_cost() with the default price lists of its signature
Call_initialize_all_time_cost(p, u) == StartRecompute(p, u, ImagePrices, TtsPriceList)

\* Price lists of the configured length and shorter ones.
ImagePriceLists == {ImagePrices, SubSeq(ImagePrices, 1, 2)}

TtsPriceLists == {TtsPriceList, SubSeq(TtsPriceList, 1, 1)}

Call_initialize_all_time_cost_with_prices(p, u) ==
  \E image_prices_list \in ImagePriceLists, tts_prices_list \in TtsPriceLists :
    StartRecompute(p, u, image_prices_list, tts_prices_list)

IatcRead(p) ==
  /\ pc[p] = "iatc_read"
  /\ LET l == local[p]
         r == initialize_all_time_cost(Select(usage_history, l.user), l.image_prices, l.tts_prices)
     IN  Finish(p, Result(l.op, l.user, r.kind, r.exc, NoValue, r.total))
  /\ UNCHANGED << clock, column_default, tables, ledgerLog, readLog, settingsLog, client, bot, calls >>

\* ------------------------------------------------------------------------
\* update_user_model, update_user_brain
\* ------------------------------------------------------------------------
ModelNames == {"gpt-4-0125-preview"}

Brains == {"code_assistant"}

DefaultBrain == "assistant"

DefaultModel == "gpt-3.5-turbo-0125"

\* update_user_model(model_name)
update_user_model(p, u, model_name) ==
  /\ Begin(p, "settings_read",
           [NoLocal EXCEPT !.op = "update_user_model", !.user = u, !.sub = model_name])
  /\ UNCHANGED << clock, column_default, tables, ledgerLog, readLog, settingsLog, client, bot >>

Call_update_user_model(p, u) ==
  \E model_name \in ModelNames : update_user_model(p, u, model_name)

\* update_user_brain(brain)
update_user_brain(p, u, brain) ==
  /\ Begin(p, "settings_read",
           [NoLocal EXCEPT !.op = "update_user_brain", !.user = u, !.sub = brain])
  /\ UNCHANGED << clock, column_default, tables, ledgerLog, readLog, settingsLog, client, bot >>

Call_update_user_brain(p, u) ==
  \E brain \in Brains : update_user_brain(p, u, brain)

\* the select of user_settings
SettingsRead(p) ==
  /\ pc[p] = "settings_read"
  /\ local' = [local EXCEPT ![p].us = Select(user_settings, local[p].user)]
  /\ Goto(p, "settings_write")
  /\ UNCHANGED << clock, column_default, tables, ledgerLog, readLog, settingsLog, client, bot, calls >>

NewSetting(l, now) ==
  [user_id |-> l.user,
   model_name |-> IF l.op = "update_user_model" THEN l.sub ELSE DefaultModel,
   brain |-> IF l.op = "update_user_brain" THEN l.sub ELSE DefaultBrain,
   last_update |-> now]

\* A variant that writes the default of the other field as the insert does.
UpdateBoth(l, now) ==
  [model_name |-> IF l.op = "update_user_model" THEN l.sub ELSE DefaultModel,
   brain |-> IF l.op = "update_user_brain" THEN l.sub ELSE DefaultBrain,
   last_update |-> now]

UpdateData(l, now) ==
  IF l.op = "update_user_model"
  THEN [model_name |-> l.sub, last_update |-> now]
  ELSE [brain |-> l.sub, last_update |-> now]

\* the update or insert of user_settings
SettingsWrite(p) ==
  /\ pc[p] = "settings_write"
  /\ \E t \in TimesOfDay :
       LET l == local[p]
           now == datetime_isoformat(Today, t)
       IN  user_settings' =
             IF l.us # << >> THEN Update(user_settings, l.user, UpdateData(l, now))
             ELSE Insert(user_settings, NewSetting(l, now))
  /\ settingsLog' = [settingsLog EXCEPT ![local[p].user] =
                        Append(@, [op |-> local[p].op, arg |-> local[p].sub])]
  /\ Finish(p, Returned(local[p].op, local[p].user, NoValue))
  /\ UNCHANGED << clock, column_default, users, current_costs, usage_history,
                  ledgerLog, readLog, client, bot, calls >>

\* ------------------------------------------------------------------------
\* get_user_setting
\* ------------------------------------------------------------------------
Call_get_user_setting(p, u) ==
  /\ Begin(p, "setting_read", [NoLocal EXCEPT !.op = "get_user_setting", !.user = u])
  /\ UNCHANGED << clock, column_default, tables, ledgerLog, readLog, settingsLog, client, bot >>

\* A variant that answers with the defaults when the user has no row.
get_user_setting_or_default(data) ==
  IF data # << >> THEN data[1]
  ELSE [model_name |-> DefaultModel, brain |-> DefaultBrain]

\* setting.data[0], or None when the user has no row
get_user_setting(data) == IF data # << >> THEN data[1] ELSE Null

GusRead(p) ==
  /\ pc[p] = "setting_read"
  /\ LET l == local[p]
     IN  Finish(p, Returned(l.op, l.user, get_user_setting(Select(user_settings, l.user))))
  /\ UNCHANGED << clock, column_default, tables, ledgerLog, readLog, settingsLog, client, bot, calls >>

\* ------------------------------------------------------------------------
\* Specifications
\* ------------------------------------------------------------------------
Idle == \A q \in Procs : pc[q] = "idle"

LedgerCalls(p, u) ==
  \/ Call_create(p, u)
  \/ Call_add_current_costs(p, u)
  \/ Call_get_current_cost(p, u)

RecordCalls(p, u) ==
  \/ Call_add_chat_tokens(p, u)
  \/ Call_add_image_request(p, u)
  \/ Call_add_vision_tokens(p, u)
  \/ Call_add_tts_request(p, u)
  \/ Call_add_transcription_seconds(p, u)
  \/ Call_initialize_all_time_cost(p, u)

SettingsCalls(p, u) ==
  \/ Call_update_user_model(p, u)
  \/ Call_update_user_brain(p, u)

LedgerSteps(p) ==
  \/ LoadUsersRead(p)
  \/ LoadUsersInsert(p)
  \/ InitCostRead(p)
  \/ InitCostInsert(p)
  \/ FetchHistRead(p)
  \/ FetchHistInsert(p)
  \/ AccRead(p)
  \/ AccWrite(p)
  \/ GccRead(p)

RecordSteps(p) ==
  \/ HistRead(p)
  \/ HistWrite(p)
  \/ IatcRead(p)

SettingsSteps(p) ==
  \/ SettingsRead(p)
  \/ SettingsWrite(p)

\* Every method, for every user, handlers overlapping.
Next ==
  \/ Tick
  \/ \E p \in Procs, u \in Users :
       /\ TotalCalls < MaxCalls
       /\ calls[u] < MaxUserCalls
       /\ LedgerCalls(p, u) \/ RecordCalls(p, u) \/ SettingsCalls(p, u)
  \/ \E p \in Procs : LedgerSteps(p) \/ RecordSteps(p) \/ SettingsSteps(p)

Spec == Init /\ [][Next]_vars

\* The ledger of one user, handlers overlapping.
LedgerUser == CHOOSE u \in Users : \A v \in Users : u <= v

\* Every method for every user, handlers overlapping, from a state in
\* which some users are known: such a user has been created, has recorded
\* chat tokens and has chosen a model on the first day of the calendar,
\* and today is the last day.
KnownTokens == CHOOSE n \in ChatTokenCounts : TRUE

KnownCost(u) == NewCostRecord(u, Calendar[1], ChatCost(KnownTokens))

KnownHistory(u) ==
  FirstHistory([NoLocal EXCEPT !.op = "add_chat_tokens", !.user = u,
                               !.today = Calendar[1], !.qty = KnownTokens],
               EmptyDict)

KnownSetting(u) ==
  NewSetting([NoLocal EXCEPT !.op = "update_user_model", !.user = u,
                             !.sub = CHOOSE m \in ModelNames : TRUE],
             datetime_isoformat(Calendar[1], CHOOSE t \in TimesOfDay : TRUE))

RowsOf(known, Row(_)) ==
  SelectSeq([u \in Users |-> Row(u)], LAMBDA r : r.user_id \in known)

KnownUser(u) == [user_id |-> u, user_name |-> UserName(u)]

InitFrame ==
  \E known \in SUBSET Users :
    /\ clock = LastDay
    /\ column_default = IF known = {} THEN Unset ELSE EmptyDict
    /\ users = RowsOf(known, KnownUser)
    /\ current_costs = RowsOf(known, KnownCost)
    /\ usage_history = RowsOf(known, KnownHistory)
    /\ user_settings = RowsOf(known, KnownSetting)
    /\ pc = [p \in Procs |-> "idle"]
    /\ local = [p \in Procs |-> NoLocal]
    /\ result = [p \in Procs |-> NoResult]
    /\ ledgerLog = [u \in Users |->
                      IF u \in known
                      THEN << [date |-> Calendar[1], amount |-> ChatCost(KnownTokens),
                               op |-> "add_chat_tokens", qty |-> KnownTokens, sub |-> ""] >>
                      ELSE << >>]
    /\ readLog = [u \in Users |-> << >>]
    /\ settingsLog = [u \in Users |->
                        IF u \in known
                        THEN << [op |-> "update_user_model",
                                 arg |-> CHOOSE m \in ModelNames : TRUE] >>
                        ELSE << >>]
    /\ calls = [u \in Users |-> 0]
    /\ env_ok = TRUE
    /\ _instance = "client"
    /\ clientLog = << >>
    /\ enabled_plugins = << >>
  /\ broken = {}
  /\ plugins = << >>
  /\ pluginLog = << >>
  /\ config = DefaultConfig
  /\ configLog = << >>

NextFrame ==
  \/ \E p \in Procs, u \in Users :
       /\ TotalCalls < MaxCalls
       /\ calls[u] < MaxUserCalls
       /\ LedgerCalls(p, u) \/ RecordCalls(p, u) \/ SettingsCalls(p, u)
  \/ \E p \in Procs : LedgerSteps(p) \/ RecordSteps(p) \/ SettingsSteps(p)

SpecFrame == InitFrame /\ [][NextFrame]_vars

NextLedger ==
  \/ Tick
  \/ \E p \in Procs : TotalCalls < MaxCalls /\ LedgerCalls(p, LedgerUser)
  \/ \E p \in Procs : LedgerSteps(p)

SpecLedger == Init /\ [][NextLedger]_vars

\* Overlapping add_current_costs calls of one user.
NextRace ==
  \/ Tick
  \/ \E p \in Procs : TotalCalls < MaxRaceCalls /\ Call_add_current_costs(p, LedgerUser)
  \/ \E p \in Procs : AccRead(p) \/ AccWrite(p)

SpecRace == Init /\ [][NextRace]_vars

\* The usage events of one user one after the other: a method starts when
\* no other is running.
NextSeq ==
  \/ Tick
  \/ \E p \in Procs :
       /\ TotalCalls < MaxSeqCalls
       /\ Idle
       /\ RecordCalls(p, LedgerUser)
  \/ \E p \in Procs : AccRead(p) \/ AccWrite(p) \/ RecordSteps(p)

SpecSeq == Init /\ [][NextSeq]_vars

AddCalls(p, u) ==
  \/ Call_add_chat_tokens(p, u)
  \/ Call_add_image_request(p, u)
  \/ Call_add_vision_tokens(p, u)
  \/ Call_add_tts_request(p, u)
  \/ Call_add_transcription_seconds(p, u)

\* Overlapping usage events of one user on one day.
NextHistory ==
  \/ \E p \in Procs : TotalCalls < MaxRaceCalls /\ AddCalls(p, LedgerUser)
  \/ \E p \in Procs : AccRead(p) \/ AccWrite(p) \/ HistRead(p) \/ HistWrite(p)

SpecHistory == Init /\ [][NextHistory]_vars

UsageReadCalls(p, u) ==
  \/ Call_get_current_token_usage(p, u)
  \/ Call_get_current_image_count(p, u)
  \/ Call_get_current_vision_tokens(p, u)
  \/ Call_get_current_tts_usage(p, u)
  \/ Call_get_current_transcription_duration(p, u)

\* The usage events and the usage reports of one user, one after the other.
NextUsage ==
  \/ Tick
  \/ \E p \in Procs :
       /\ TotalCalls < MaxSeqCalls
       /\ Idle
       /\ AddCalls(p, LedgerUser) \/ UsageReadCalls(p, LedgerUser)
  \/ \E p \in Procs :
       AccRead(p) \/ AccWrite(p) \/ HistRead(p) \/ HistWrite(p) \/ UsageRead(p)

SpecUsage == Init /\ [][NextUsage]_vars

\* The image requests and the image reports of one user, one after the
\* other.
NextImages ==
  \/ Tick
  \/ \E p \in Procs :
       /\ TotalCalls < MaxImageCalls
       /\ Idle
       /\ Call_add_image_request(p, LedgerUser) \/ Call_get_current_image_count(p, LedgerUser)
  \/ \E p \in Procs :
       AccRead(p) \/ AccWrite(p) \/ HistRead(p) \/ HistWrite(p) \/ UsageRead(p)

SpecImages == Init /\ [][NextImages]_vars

\* Image and TTS requests of one user, one after the other, with
\* arguments inside and outside the size list and the price table.
Call_add_image_request_of_any_size(p, u) ==
  \E image_size \in ImageSizes \cup UnknownSizes : add_image_request(p, u, image_size)

Call_add_tts_request_of_any_model(p, u) ==
  \E text_length \in TextLengths,
     tts_model \in {TtsModels[i] : i \in DOMAIN TtsModels} \cup UnknownTtsModels :
    add_tts_request(p, u, text_length, tts_model)

NextContract ==
  \/ Tick
  \/ \E p \in Procs :
       /\ TotalCalls < MaxSeqCalls
       /\ Idle
       /\ \/ Call_add_image_request_of_any_size(p, LedgerUser)
          \/ Call_add_tts_request_of_any_model(p, LedgerUser)
  \/ \E p \in Procs : AccRead(p) \/ AccWrite(p) \/ HistRead(p) \/ HistWrite(p)

SpecContract == Init /\ [][NextContract]_vars

\* The settings calls of one user, one after the other; the user may
\* select the default model and the default persona as well.
Call_update_user_model_to_any(p, u) ==
  \E model_name \in ModelNames \cup {DefaultModel} : update_user_model(p, u, model_name)

Call_update_user_brain_to_any(p, u) ==
  \E brain \in Brains \cup {DefaultBrain} : update_user_brain(p, u, brain)

NextSettings ==
  \/ Tick
  \/ \E p \in Procs :
       /\ TotalCalls < MaxSeqCalls
       /\ Idle
       /\ \/ Call_update_user_model_to_any(p, LedgerUser)
          \/ Call_update_user_brain_to_any(p, LedgerUser)
          \/ Call_get_user_setting(p, LedgerUser)
  \/ \E p \in Procs : SettingsRead(p) \/ SettingsWrite(p) \/ GusRead(p)

SpecSettings == Init /\ [][NextSettings]_vars

\* The reading methods for every user, handlers overlapping, from a state
\* in which some users are known.
ReadCalls(p, u) ==
  \/ Call_get_current_cost(p, u)
  \/ UsageReadCalls(p, u)
  \/ Call_initialize_all_time_cost(p, u)
  \/ Call_get_user_setting(p, u)

ReadSteps(p) == GccRead(p) \/ UsageRead(p) \/ IatcRead(p) \/ GusRead(p)

NextRead ==
  \/ \E p \in Procs, u \in Users : TotalCalls < MaxCalls /\ ReadCalls(p, u)
  \/ \E p \in Procs : ReadSteps(p)

SpecRead == InitFrame /\ [][NextRead]_vars

\* The cost reports of one user between the user's requests, handlers
\* overlapping.
NextReport ==
  \/ Tick
  \/ \E p \in Procs :
       /\ TotalCalls < MaxRaceCalls
       /\ Call_add_current_costs(p, LedgerUser) \/ Call_get_current_cost(p, LedgerUser)
  \/ \E p \in Procs : AccRead(p) \/ AccWrite(p) \/ GccRead(p)

SpecReport == Init /\ [][NextReport]_vars

\* Construction of trackers in a fresh process, whose environment may
\* or may not let the gateway client be created.
InitClient ==
  /\ clock = 1
  /\ column_default = Unset
  /\ users = << >>
  /\ current_costs = << >>
  /\ usage_history = << >>
  /\ user_settings = << >>
  /\ pc = [p \in Procs |-> "idle"]
  /\ local = [p \in Procs |-> NoLocal]
  /\ result = [p \in Procs |-> NoResult]
  /\ ledgerLog = [u \in Users |-> << >>]
  /\ readLog = [u \in Users |-> << >>]
  /\ settingsLog = [u \in Users |-> << >>]
  /\ calls = [u \in Users |-> 0]
  /\ env_ok \in BOOLEAN
  /\ _instance = "None"
  /\ clientLog = << >>
  /\ enabled_plugins = << >>
  /\ broken = {}
  /\ plugins = << >>
  /\ pluginLog = << >>
  /\ config = DefaultConfig
  /\ configLog = << >>

CreateSteps(p) ==
  \/ LoadUsersRead(p)
  \/ LoadUsersInsert(p)
  \/ InitCostRead(p)
  \/ InitCostInsert(p)
  \/ FetchHistRead(p)
  \/ FetchHistInsert(p)

NextClient ==
  \/ Tick
  \/ \E p \in Procs, u \in Users :
       /\ TotalCalls < MaxRaceCalls
       /\ Call_UsageTracker(p, u) \/ Call_create(p, u)
  \/ \E p \in Procs : CreateSteps(p)

SpecClient == InitClient /\ [][NextClient]_vars

\* Image and TTS requests of one user and recomputations of the user's
\* total with price lists of any length, one after the other.
NextRecompute ==
  \/ Tick
  \/ \E p \in Procs :
       /\ TotalCalls < MaxSeqCalls
       /\ Idle
       /\ \/ Call_add_image_request(p, LedgerUser)
          \/ Call_add_tts_request(p, LedgerUser)
          \/ Call_initialize_all_time_cost_with_prices(p, LedgerUser)
  \/ \E p \in Procs :
       AccRead(p) \/ AccWrite(p) \/ HistRead(p) \/ HistWrite(p) \/ IatcRead(p)

SpecRecompute == Init /\ [][NextRecompute]_vars

\* The requests and the cost reports of one user, one after the other.
NextReportSeq ==
  \/ Tick
  \/ \E p \in Procs :
       /\ TotalCalls < MaxReportCalls
       /\ Idle
       /\ Call_add_current_costs(p, LedgerUser) \/ Call_get_current_cost(p, LedgerUser)
  \/ \E p \in Procs : AccRead(p) \/ AccWrite(p) \/ GccRead(p)

SpecReportSeq == Init /\ [][NextReportSeq]_vars

\* The usage events of one user on one day, one after the other, with a
\* gateway whose calls on usage_history may fail.
NextPartial ==
  \/ \E p \in Procs :
       /\ TotalCalls < MaxSeqCalls
       /\ Idle
       /\ AddCalls(p, LedgerUser)
  \/ \E p \in Procs :
       \/ AccRead(p) \/ AccWrite(p) \/ HistRead(p) \/ HistWrite(p)
       \/ HistReadFails(p) \/ HistWriteFails(p)

SpecPartial == Init /\ [][NextPartial]_vars

\* ------------------------------------------------------------------------
\* Properties
\* ------------------------------------------------------------------------

\* Handler p completes add_current_costs in this step without raising.
AccWrote(p) ==
  /\ pc[p] = "acc_write"
  /\ pc'[p] # "acc_write"
  /\ result'[p].kind # "raise"

\* Handler p completes get_current_cost in this step.
GccDone(p) == pc[p] = "gcc_read" /\ pc'[p] = "idle"

SameCalendarMonth(a, b) == a.year = b.year /\ a.month = b.month

\* Sum of the logged amounts of user u whose date satisfies Keep.
SumLogged(u, Keep(_)) ==
  LET log == ledgerLog[u]
  IN  SumValues([i \in {j \in DOMAIN log : Keep(log[j].date)} |-> log[i].amount])

\* C1: add_current_costs on an existing record, executed on date T, adds
\* the amount to all_time and sets last_update to T; it adds the amount to
\* day and month if last_update = T, else sets day to the amount and adds
\* it to month if last_update is in the same calendar month (year and
\* month) as T, else sets both day and month to the amount.
C1_Rollover ==
  [][\A p \in Procs :
       (AccWrote(p) /\ local[p].cc # << >>) =>
         LET old == local[p].cc[1]
             new == Select(current_costs', local[p].user)[1]
             T == local[p].today
             a == local[p].cost
             last == fromisoformat(old.last_update).date
         IN  /\ new.all_time = old.all_time + a
             /\ new.last_update = isoformat(T)
             /\ IF last = T
                THEN new.day = old.day + a /\ new.month = old.month + a
                ELSE IF SameCalendarMonth(last, T)
                THEN new.day = a /\ new.month = old.month + a
                ELSE new.day = a /\ new.month = a]_vars

\* C2: after non-overlapping accumulate calls on non-decreasing dates the
\* stored day is the sum of the amounts of the events dated on last_update
\* and the stored month is the sum of the amounts of the events of the
\* year and month of last_update.
C2_DayMonthSums ==
  \A u \in Users :
    LET data == Select(current_costs, u)
    IN  (data # << >> /\ fromisoformat(data[1].last_update).ok) =>
          LET last == fromisoformat(data[1].last_update).date
              OnDay(d) == d = last
              InMonth(d) == SameCalendarMonth(d, last)
          IN  /\ data[1].day = SumLogged(u, OnDay)
              /\ data[1].month = SumLogged(u, InMonth)

\* C3: the stored all_time of a user never decreases from one state to
\* the next, overlapping accumulate calls included (stated for a user with
\* one record before and after the step).
C3_AllTimeMonotonic ==
  [][\A u \in Users :
       LET before == Select(current_costs, u)
           after == Select(current_costs', u)
       IN  (Len(before) = 1 /\ Len(after) = 1) =>
             after[1].all_time >= before[1].all_time]_vars

\* C4: overlapping add_current_costs calls of one user race: the call
\* that writes stores the all_time it read plus its own amount, whatever
\* the other calls have stored since it read, so that an update is lost.
C4_WriteBackFromSnapshot ==
  [][\A p \in Procs :
       (AccWrote(p) /\ local[p].cc # << >>) =>
         \A i \in DOMAIN current_costs' :
           current_costs'[i].user_id = local[p].user =>
             current_costs'[i].all_time = local[p].cc[1].all_time + local[p].cost]_vars

\* Three calls have written; the last two had positive amounts and
\* all_time has grown by only one of them.
C4_LostUpdate ==
  /\ Idle
  /\ Len(current_costs) = 1
  /\ Len(ledgerLog[LedgerUser]) = 3
  /\ ledgerLog[LedgerUser][2].amount > 0
  /\ ledgerLog[LedgerUser][3].amount > 0
  /\ current_costs[1].all_time =
       ledgerLog[LedgerUser][1].amount + ledgerLog[LedgerUser][3].amount

\* Some handler running for user v takes this step.
Acting(v) ==
  \E p \in Procs :
    /\ pc'[p] # pc[p] \/ local'[p] # local[p]
    /\ local[p].user = v \/ local'[p].user = v

\* C5: a step of a method running for one user leaves the rows of every
\* other user unchanged in every table, under any interleaving.
C5_Frame ==
  [][\A v \in Users :
       ~Acting(v) =>
         /\ Select(users', v) = Select(users, v)
         /\ Select(current_costs', v) = Select(current_costs, v)
         /\ Select(usage_history', v) = Select(usage_history, v)
         /\ Select(user_settings', v) = Select(user_settings, v)]_vars

\* A method of one user has updated that user's cost record and usage
\* history today while another user's rows of an earlier day are stored.
C5_UpdatedBesideOther ==
  \E u, v \in Users :
    /\ u # v
    /\ Idle
    /\ Len(ledgerLog[u]) = 2
    /\ Select(current_costs, u)[1].last_update = isoformat(Today)
    /\ isoformat(Today) \in DOMAIN Select(usage_history, u)[1].chat_tokens.map
    /\ Select(current_costs, v) = << KnownCost(v) >>
    /\ Select(usage_history, v) = << KnownHistory(v) >>
    /\ Select(user_settings, v) # << >>

\* C6: get_current_cost returns the stored day if last_update is today and
\* 0 otherwise, the stored month if last_update is in today's year and
\* month and 0 otherwise, and the stored all_time.
C6_ReadCurrentCost ==
  [][\A p \in Procs :
       (GccDone(p) /\ result'[p].kind = "return"
          /\ Select(current_costs, local[p].user) # << >>) =>
         LET row == Select(current_costs, local[p].user)[1]
             T == local[p].today
             last == fromisoformat(row.last_update).date
             v == result'[p].value
         IN  /\ v.cost_today = (IF last = T THEN row.day ELSE 0)
             /\ v.cost_month = (IF SameCalendarMonth(last, T) THEN row.month ELSE 0)
             /\ v.cost_all_time = row.all_time]_vars

\* get_current_cost has returned 0 for today and for the month while the
\* record holds a positive day and month of an earlier month.
C6_StaleNotReported ==
  \E p \in Procs :
    /\ result[p].op = "get_current_cost"
    /\ result[p].kind = "return"
    /\ result[p].value.cost_today = 0
    /\ result[p].value.cost_month = 0
    /\ result[p].value.cost_all_time > 0
    /\ Len(current_costs) = 1
    /\ current_costs[1].day > 0
    /\ current_costs[1].month > 0

\* C7: for a user without a prior accumulate, get_current_cost returns all
\* zeros; after a single accumulate of a on the same day it returns a for
\* today, the month and all time; also when the record was initialised by
\* UsageTracker.create.
C7_FreshUser ==
  [][\A p \in Procs :
       GccDone(p) =>
         LET u == local[p].user
             log == ledgerLog[u]
             r == result'[p]
         IN  /\ log = << >> => (r.kind = "return" /\ r.value = NoValue)
             /\ (Len(log) = 1 /\ log[1].date = local[p].today) =>
                  /\ r.kind = "return"
                  /\ r.value = [cost_today |-> log[1].amount,
                                cost_month |-> log[1].amount,
                                cost_all_time |-> log[1].amount]]_vars

\* C8: the stored last_update of every cost record is a calendar date
\* YYYY-MM-DD without a time component, which date.fromisoformat parses.
C8_LastUpdateIsDate ==
  \A i \in DOMAIN current_costs :
    /\ Len(current_costs[i].last_update) = 10
    /\ fromisoformat(current_costs[i].last_update).ok

\* C9: add_current_costs with amount 0 sets last_update to today, leaves
\* all_time unchanged, resets day to 0 on a new day and resets day and
\* month to 0 on a new calendar month.
C9_ZeroAmount ==
  [][\A p \in Procs :
       (AccWrote(p) /\ local[p].cc # << >> /\ local[p].cost = 0) =>
         LET old == local[p].cc[1]
             new == Select(current_costs', local[p].user)[1]
             T == local[p].today
             last == fromisoformat(old.last_update).date
         IN  /\ new.last_update = isoformat(T)
             /\ new.all_time = old.all_time
             /\ last # T => new.day = 0
             /\ ~SameCalendarMonth(last, T) => new.month = 0]_vars

\* C10: after non-overlapping usage events recorded with a fixed price
\* table, initialize_all_time_cost returns the stored all_time of the
\* ledger.
C10_Recompute ==
  [][\A p \in Procs :
       (pc[p] = "iatc_read" /\ pc'[p] = "idle" /\ result'[p].kind = "return") =>
         LET data == Select(current_costs, local[p].user)
         IN  result'[p].total = (IF data = << >> THEN 0 ELSE data[1].all_time)]_vars

\* A date-keyed mapping only grows: every date stays, no quantity falls.
DatesGrow(before, after) ==
  /\ DOMAIN before \subseteq DOMAIN after
  /\ \A day \in DOMAIN before : after[day] >= before[day]

\* The same for the vectors of image counts.
ImagesGrow(before, after) ==
  /\ DOMAIN before \subseteq DOMAIN after
  /\ \A day \in DOMAIN before : \A i \in 1..3 : after[day][i] >= before[day][i]

\* The same for the TTS characters: every model stays and its dates grow.
TtsGrow(before, after) ==
  \A i \in DOMAIN before :
    \E j \in DOMAIN after :
      /\ after[j].model = before[i].model
      /\ DatesGrow(before[i].dates, after[j].dates)

ColumnGrows(cat, before, after) ==
  before.kind = "dict" =>
    /\ after.kind = "dict"
    /\ CASE cat = "number_images" -> ImagesGrow(before.map, after.map)
         [] cat = "tts_characters" -> TtsGrow(before.map, after.map)
         [] OTHER -> DatesGrow(before.map, after.map)

Categories ==
  {"chat_tokens", "number_images", "vision_tokens", "tts_characters",
   "transcription_seconds"}

\* C11: from one state to the next no date key and no TTS model key of a
\* user's usage history is removed and no stored quantity decreases,
\* overlapping record calls of the user included (stated for a user with
\* one history row before and after the step).
C11_HistoryGrows ==
  [][\A u \in Users :
       LET before == Select(usage_history, u)
           after == Select(usage_history', u)
       IN  (Len(before) = 1 /\ Len(after) = 1) =>
             \A cat \in Categories : ColumnGrows(cat, before[1][cat], after[1][cat])]_vars

\* The quantity a column holds for a date and a sub-key: the slot of an
\* image size, the characters of a TTS model, or the value of the date.
Quantity(cat, column, day, sub) ==
  IF column.kind # "dict" THEN 0
  ELSE CASE cat = "number_images" ->
              Get(column.map, day, << 0, 0, 0 >>)[IndexOf(Sizes, sub)]
         [] cat = "tts_characters" ->
              SumValues([i \in {j \in DOMAIN column.map : column.map[j].model = sub} |->
                           Get(column.map[i].dates, day, 0)])
         [] OTHER -> Get(column.map, day, 0)

Days == {isoformat(Calendar[i]) : i \in DOMAIN Calendar}

SubKeys(cat) ==
  CASE cat = "number_images" -> {Sizes[i] : i \in DOMAIN Sizes}
    [] cat = "tts_characters" -> {TtsModels[i] : i \in DOMAIN TtsModels} \cup UnknownTtsModels
    [] OTHER -> {""}

\* Handler p completes the usage-history part of an add_* method in this
\* step without raising.
HistWrote(p) == pc[p] = "hist_write" /\ pc'[p] = "idle" /\ result'[p].kind = "return"

\* C12: a record operation that completes increases the stored quantity of
\* its category at today's date and its sub-key by the given quantity,
\* creating the row and the mappings that are missing, and leaves every
\* other category, date and sub-key of the user's history unchanged.
C12_RecordEffect ==
  [][\A p \in Procs :
       HistWrote(p) =>
         LET l == local[p]
             cat == Category(l.op)
             before == Select(usage_history, l.user)
             after == Select(usage_history', l.user)
             old == IF before = << >> THEN Null ELSE before[1][cat]
         IN  /\ Len(after) = 1
             /\ after[1][cat].kind = "dict"
             /\ \A day \in Days, sub \in SubKeys(cat) :
                  Quantity(cat, after[1][cat], day, sub) =
                    Quantity(cat, old, day, sub)
                      + (IF day = isoformat(l.today) /\ sub = l.sub THEN l.qty ELSE 0)
             /\ \A c \in Categories \ {cat} :
                  IF before = << >> THEN after[1][c] \in {Null, EmptyDict}
                  ELSE after[1][c] = before[1][c]]_vars

\* The chat tokens of one day were recorded twice and make one entry of
\* the sum, beside an entry of another category or of another day.
C12_IncrementedBesideOthers ==
  /\ Idle
  /\ Len(usage_history) = 1
  /\ usage_history[1].chat_tokens.kind = "dict"
  /\ \E day \in DOMAIN usage_history[1].chat_tokens.map :
       /\ \E tokens \in ChatTokenCounts :
            usage_history[1].chat_tokens.map[day] = tokens + tokens
       /\ \/ \E other \in DOMAIN usage_history[1].chat_tokens.map : other # day
          \/ \E c \in Categories \ {"chat_tokens"} :
               /\ usage_history[1][c].kind = "dict"
               /\ usage_history[1][c].map # << >>

\* Handler p completes a get_current_* method in this step and returns.
UsageReadDone(p) ==
  pc[p] = "usage_read" /\ pc'[p] = "idle" /\ result'[p].kind = "return"

\* The quantity of a category stored for the days in `days`, all sub-keys
\* together.
StoredTotal(cat, column, days) ==
  LET keys == days \X SubKeys(cat)
  IN  SumValues([k \in keys |-> Quantity(cat, column, k[1], k[2])])

\* (today_total, month_total) of what a get_current_* method returned
Totals(op, value) ==
  IF op = "get_current_transcription_duration"
  THEN [today |-> 60 * value.minutes_day + value.seconds_day,
        month |-> 60 * value.minutes_month + value.seconds_month]
  ELSE [today |-> value.usage_day, month |-> value.usage_month]

\* C13: for every category the aggregate returns as month total the sum of
\* the entries dated in the year and month of today, entries of adjacent
\* months excluded and today's entry included, as today's total the entry
\* of today, and today's total is at most the month total.
C13_MonthAggregate ==
  [][\A p \in Procs :
       UsageReadDone(p) =>
         LET l == local[p]
             cat == ReadCategory(l.op)
             data == Select(usage_history, l.user)
             column == IF data = << >> THEN EmptyDict ELSE data[1][cat]
             thisMonth == {day \in Days : SameCalendarMonth(fromisoformat(day).date, l.today)}
             r == Totals(l.op, result'[p].value)
         IN  /\ r.month = StoredTotal(cat, column, thisMonth)
             /\ r.today = StoredTotal(cat, column, {isoformat(l.today)})
             /\ r.today <= r.month]_vars

\* The last call, a report made on 2024-02-01, has returned only the entry
\* of that day as the month total while the history holds an entry of
\* 2024-01-31 as well.
C13_AdjacentMonthExcluded ==
  \E p \in Procs :
    /\ Idle
    /\ result[p].kind = "return"
    /\ result[p].op \in {"get_current_token_usage", "get_current_image_count",
                         "get_current_vision_tokens", "get_current_tts_usage"}
    /\ Len(usage_history) = 1
    /\ LET cat == ReadCategory(result[p].op)
           column == usage_history[1][cat]
       IN  /\ column.kind = "dict"
           /\ StoredTotal(cat, column, {isoformat(D(2024, 1, 31))}) > 0
           /\ StoredTotal(cat, column, {isoformat(D(2024, 2, 1))}) > 0
           /\ result[p].value.usage_day = StoredTotal(cat, column, {isoformat(D(2024, 2, 1))})
           /\ result[p].value.usage_month = result[p].value.usage_day

\* The number of image requests of user u made on `day` with each size,
\* in the order of Sizes.
ImageRequests(u, day) ==
  [i \in DOMAIN Sizes |->
     Cardinality({j \in DOMAIN ledgerLog[u] :
                    /\ ledgerLog[u][j].op = "add_image_request"
                    /\ ledgerLog[u][j].date = day
                    /\ ledgerLog[u][j].sub = Sizes[i]})]

\* The stored image vectors of user u are the counts of the requests.
ImagesCounted(u) ==
  LET data == Select(usage_history, u)
      map == IF data = << >> THEN << >> ELSE data[1].number_images.map
  IN  \A i \in DOMAIN Calendar :
        LET requests == ImageRequests(u, Calendar[i])
        IN  IF requests = << 0, 0, 0 >> THEN isoformat(Calendar[i]) \notin DOMAIN map
            ELSE /\ isoformat(Calendar[i]) \in DOMAIN map
                 /\ map[isoformat(Calendar[i])] = requests

\* C14: after any sequence of image requests the vector stored for a day
\* has in slot i the number of requests of that day with size i, in the
\* order 256x256, 512x512, 1024x1024, and the image count reported for
\* today is the sum of the three slots of today.
C14_ImageVector ==
  [][/\ Idle' => \A u \in Users : ImagesCounted(u)'
     /\ \A p \in Procs :
          (UsageReadDone(p) /\ local[p].op = "get_current_image_count") =>
            LET data == Select(usage_history, local[p].user)
                map == IF data = << >> THEN << >> ELSE data[1].number_images.map
                slots == Get(map, isoformat(local[p].today), << 0, 0, 0 >>)
            IN  result'[p].value.usage_day = slots[1] + slots[2] + slots[3]]_vars

\* Two requests of 1024x1024 and one of 256x256 on one day are stored as
\* [1, 0, 2] and the report of that day counts 3 images.
C14_OneZeroTwo ==
  /\ Idle
  /\ Len(usage_history) = 1
  /\ isoformat(Today) \in DOMAIN usage_history[1].number_images.map
  /\ usage_history[1].number_images.map[isoformat(Today)] = << 1, 0, 2 >>
  /\ \E p \in Procs :
       /\ result[p].op = "get_current_image_count"
       /\ result[p].kind = "return"
       /\ result[p].value.usage_day = 3

\* The running method was given an image size outside the size list or a
\* TTS model outside the price table.
UnknownKey(l) ==
  \/ l.op = "add_image_request" /\ ~(\E i \in DOMAIN Sizes : Sizes[i] = l.sub)
  \/ l.op = "add_tts_request" /\ ~(\E i \in DOMAIN TtsModels : TtsModels[i] = l.sub)

\* C15: an image request with a size outside the size list and a TTS
\* request with a model outside the price table end with an error and
\* change neither the ledger nor the usage history.
C15_UnknownKeyFails ==
  [][\A p \in Procs :
       /\ UnknownKey(local[p]) =>
            /\ current_costs' = current_costs
            /\ usage_history' = usage_history
            /\ pc'[p] = "idle" => result'[p].kind = "raise"
       /\ (pc[p] = "idle" /\ pc'[p] = "idle" /\ result'[p] # result[p]) =>
            /\ current_costs' = current_costs
            /\ usage_history' = usage_history
            /\ result'[p].kind = "raise"]_vars

\* The argument of the last update `op` in the log, or the default.
LastArg(log, op, default) ==
  LET updates == {i \in DOMAIN log : log[i].op = op}
  IN  IF updates = {} THEN default
      ELSE log[CHOOSE i \in updates : \A j \in updates : j <= i].arg

\* C16: after any sequence of non-overlapping update_user_model and
\* update_user_brain calls for a user who had no settings row, the stored
\* model is the argument of the last update_user_model call, or the
\* default model, and the stored persona is the argument of the last
\* update_user_brain call, or "assistant".
C16_LastUpdateWins ==
  Idle =>
    \A u \in Users :
      LET log == settingsLog[u]
          data == Select(user_settings, u)
      IN  IF log = << >> THEN data = << >>
          ELSE /\ Len(data) = 1
               /\ data[1].model_name = LastArg(log, "update_user_model", DefaultModel)
               /\ data[1].brain = LastArg(log, "update_user_brain", DefaultBrain)

\* A model was chosen, then a persona: the row holds both choices.
C16_ModelKeptByPersona ==
  /\ Idle
  /\ \E u \in Users :
       /\ Len(settingsLog[u]) = 2
       /\ settingsLog[u][1].op = "update_user_model"
       /\ settingsLog[u][1].arg # DefaultModel
       /\ settingsLog[u][2].op = "update_user_brain"
       /\ settingsLog[u][2].arg # DefaultBrain
       /\ Select(user_settings, u)[1].model_name = settingsLog[u][1].arg
       /\ Select(user_settings, u)[1].brain = settingsLog[u][2].arg

\* C17: in every reachable state, after overlapping upserts and
\* overlapping first events of a user included, each of user_settings,
\* current_costs and usage_history holds at most one row per user id.
C17_OneRowPerUser ==
  \A u \in Users :
    /\ Len(Select(user_settings, u)) <= 1
    /\ Len(Select(current_costs, u)) <= 1
    /\ Len(Select(usage_history, u)) <= 1

ReadLabels == {"gcc_read", "usage_read", "iatc_read", "setting_read"}

\* Handler p is inside a reading method before or after this step.
Reading(p) == pc[p] \in ReadLabels \/ pc'[p] \in ReadLabels

\* What a reading method answers for a user without a record.
NotFound(op, u) ==
  CASE op = "get_current_cost" -> Returned(op, u, NoValue)
    [] op = "initialize_all_time_cost" -> ReturnedTotal(op, u, 0)
    [] op = "get_user_setting" -> Returned(op, u, Null)
    [] op = "get_current_transcription_duration" ->
         Returned(op, u, [minutes_day |-> 0, seconds_day |-> 0,
                          minutes_month |-> 0, seconds_month |-> 0])
    [] OTHER -> Returned(op, u, [usage_day |-> 0, usage_month |-> 0])

\* The table a reading method selects from.
TableRead(op) ==
  CASE op = "get_current_cost" -> current_costs
    [] op = "get_user_setting" -> user_settings
    [] OTHER -> usage_history

\* C18: a step of a reading method (get_current_cost, the five
\* get_current_* usage reports, initialize_all_time_cost, get_user_setting)
\* leaves every table unchanged, and a reading method that finds no
\* record of the user returns zero usage or None and creates no row.
C18_ReadsChangeNothing ==
  [][\A p \in Procs :
       Reading(p) =>
         /\ tables' = tables
         /\ pc[p] \in ReadLabels /\ pc'[p] = "idle"
              /\ Select(TableRead(local[p].op), local[p].user) = << >> =>
              /\ result'[p] = NotFound(local[p].op, local[p].user)
              /\ Select(TableRead(local[p].op), local[p].user)' = << >>]_vars

\* Witness of C18: get_user_setting has answered None for a user without
\* a settings row while another user has one, and no row was created.
C18_NotFoundBesideKnown ==
  \E p \in Procs :
    /\ result[p] = NotFound("get_user_setting", result[p].user)
    /\ result[p].user \in Users
    /\ Select(user_settings, result[p].user) = << >>
    /\ user_settings # << >>

\* The i-th and the next get_current_cost of user u, with no
\* add_current_costs write of the user between their selects.
ReadTwice(u, i) ==
  /\ i \in 1..(Len(readLog[u]) - 1)
  /\ readLog[u][i].written = readLog[u][i + 1].written

SameAnswer(a, b) == a.kind = b.kind /\ a.exc = b.exc /\ a.value = b.value

C20_ConstructionFailsLoudly ==
  \A p \in Procs :
    ~env_ok /\ result[p].op \in {"UsageTracker", "create"} => result[p].kind = "raise"

\* The characters of the TTS requests logged for user u whose date
\* satisfies Keep, all models together.
TtsLogged(u, Keep(_)) ==
  LET log == ledgerLog[u]
      tts == {j \in DOMAIN log : log[j].op = "add_tts_request" /\ Keep(log[j].date)}
  IN  SumValues([i \in tts |-> log[i].qty])

\* C21: get_current_tts_usage returns as today's total the characters of
\* today's TTS requests of all models together, and as month total the
\* characters of all TTS requests of the current month, all models together.
C21_TtsAcrossModels ==
  [][\A p \in Procs :
       UsageReadDone(p) /\ local[p].op = "get_current_tts_usage" =>
         LET l == local[p]
             v == result'[p].value
         IN  /\ v.usage_day = TtsLogged(l.user, LAMBDA d : d = l.today)
             /\ v.usage_month = TtsLogged(l.user, LAMBDA d : SameCalendarMonth(d, l.today))]_vars

\* Witness of C21: the user used two TTS models, on different days of one
\* month, and the report made on the second day counts the second model
\* for the day and both for the month.
C21_TwoModelsReported ==
  \E p \in Procs : \E u \in Users :
    /\ Idle
    /\ result[p] = Returned("get_current_tts_usage", u,
                            [usage_day |-> TtsLogged(u, LAMBDA d : d = Today),
                             usage_month |-> TtsLogged(u, LAMBDA d : SameCalendarMonth(d, Today))])
    /\ Len(ledgerLog[u]) = 2
    /\ ledgerLog[u][1].op = "add_tts_request"
    /\ ledgerLog[u][2].op = "add_tts_request"
    /\ ledgerLog[u][1].sub # ledgerLog[u][2].sub
    /\ ledgerLog[u][1].date # ledgerLog[u][2].date
    /\ ledgerLog[u][2].date = Today
    /\ result[p].value.usage_day > 0
    /\ result[p].value.usage_month > result[p].value.usage_day

\* The characters recorded under each TTS model, priced with the price of
\* that model.
PricedByModel(tts_characters) ==
  SumValues([i \in DOMAIN tts_characters |->
               SumValues(tts_characters[i].dates) * TtsPrice(tts_characters[i].model)]) \div 1000

\* The history row holds TTS usage only.
OnlyTts(h) ==
  /\ \A c \in {"chat_tokens", "number_images", "transcription_seconds", "vision_tokens"} :
       h[c].kind = "dict" /\ h[c].map = << >>
  /\ h.tts_characters.kind = "dict"

\* C22: initialize_all_time_cost prices the characters recorded under each
\* TTS model with the price of that model, whatever the order in which
\* the models entered the history (stated for a history of TTS usage only,
\* where the total is the TTS cost).
C22_TtsPricedByModel ==
  [][\A p \in Procs :
       (pc[p] = "iatc_read" /\ pc'[p] = "idle" /\ result'[p].kind = "return") =>
         LET data == Select(usage_history, local[p].user)
         IN  data # << >> /\ OnlyTts(data[1]) =>
               result'[p].total = PricedByModel(data[1].tts_characters.map)]_vars

\* The price lists handler p recomputes with are shorter than what the
\* history row h holds: images with fewer than three prices, or more TTS
\* models than TTS prices.
PricesTooShort(p, h) ==
  \/ /\ h.number_images.kind = "dict"
     /\ h.number_images.map # << >>
     /\ Len(local[p].image_prices) < Len(Sizes)
  \/ /\ h.tts_characters.kind = "dict"
     /\ Len(local[p].tts_prices) < Len(h.tts_characters.map)

\* C23: initialize_all_time_cost with a price list shorter than the sizes
\* or the TTS models of the history raises an error.
C23_ShortPriceListFails ==
  [][\A p \in Procs :
       (pc[p] = "iatc_read" /\ pc'[p] = "idle") =>
         LET data == Select(usage_history, local[p].user)
         IN  data # << >> /\ PricesTooShort(p, data[1]) => result'[p].kind = "raise"]_vars

AddOps ==
  {"add_chat_tokens", "add_image_request", "add_vision_tokens", "add_tts_request",
   "add_transcription_seconds"}

\* The cost of one event, rounded as its category is: chat tokens to 6
\* decimals, vision tokens, TTS and transcription to 2 decimals, an image
\* at the price of its size.
PerEventCost(op, qty, sub) ==
  CASE op = "add_chat_tokens" -> Round(qty * TokenPrice, 1000, 1)
    [] op = "add_vision_tokens" -> Round(qty * VisionTokenPrice, 1000, Cent)
    [] op = "add_transcription_seconds" -> Round(qty * MinutePrice, 60, Cent)
    [] op = "add_tts_request" -> Round(qty * TtsPrice(sub), 1000, Cent)
    [] op = "add_image_request" -> qty * ImagePrices[IndexOf(Sizes, sub)]

\* C24: the amount an add_* method adds to day, month and all_time of the
\* ledger is the cost of the event rounded for its category: every total
\* is its former value plus that amount, or that amount after a rollover.
C24_RoundedBeforeAccumulation ==
  [][\A p \in Procs :
       AccWrote(p) /\ local[p].op \in AddOps =>
         LET l == local[p]
             c == PerEventCost(l.op, l.qty, l.sub)
             new == Select(current_costs', l.user)[1]
         IN  IF l.cc = << >>
             THEN new.day = c /\ new.month = c /\ new.all_time = c
             ELSE LET old == l.cc[1]
                  IN  /\ new.all_time = old.all_time + c
                      /\ new.day \in {old.day + c, c}
                      /\ new.month \in {old.month + c, c}]_vars

\* Witness of C24: two transcriptions of 30 seconds on one day, each
\* charged round(0.003, 2) = 0.0, leave all totals at 0 although the
\* minute they add up to costs round(0.006, 2) = 0.01.
C24_SumOfRounded ==
  \E u \in Users :
    /\ Idle
    /\ Len(ledgerLog[u]) = 2
    /\ \A i \in 1..2 : /\ ledgerLog[u][i].op = "add_transcription_seconds"
                       /\ ledgerLog[u][i].qty = 30
                       /\ ledgerLog[u][i].date = Today
    /\ Len(current_costs) = 1
    /\ current_costs[1].day = 0
    /\ current_costs[1].month = 0
    /\ current_costs[1].all_time = 0
    /\ Round(60 * MinutePrice, 60, Cent) > 0

\* C25: get_current_transcription_duration splits the day total and the
\* month total of the stored seconds separately into minutes and remaining
\* seconds: 60 * minutes + remainder is the total, and the remainder is
\* from 0 to 59.
C25_MinutesAndSeconds ==
  [][\A p \in Procs :
       UsageReadDone(p) /\ local[p].op = "get_current_transcription_duration" =>
         LET l == local[p]
             data == Select(usage_history, l.user)
             column == IF data = << >> THEN EmptyDict ELSE data[1].transcription_seconds
             thisMonth == {day \in Days : SameCalendarMonth(fromisoformat(day).date, l.today)}
             s_day == StoredTotal("transcription_seconds", column, {isoformat(l.today)})
             s_month == StoredTotal("transcription_seconds", column, thisMonth)
             v == result'[p].value
         IN  /\ 60 * v.minutes_day + v.seconds_day = s_day
             /\ v.seconds_day \in 0..59
             /\ 60 * v.minutes_month + v.seconds_month = s_month
             /\ v.seconds_month \in 0..59]_vars

\* Witness of C25: with 90 seconds on an earlier day of the month and 30
\* seconds today the report is 0 minutes 30 seconds for the day and 2
\* minutes 0 seconds for the month.
C25_DayAndMonthSplit ==
  \E p \in Procs :
    /\ Idle
    /\ result[p].op = "get_current_transcription_duration"
    /\ result[p].kind = "return"
    /\ result[p].value = [minutes_day |-> 0, seconds_day |-> 30,
                          minutes_month |-> 2, seconds_month |-> 0]

\* C26: all SupabaseClient() calls that return hand out one and the same
\* instance, at most one instance is ever made, and create_client makes a
\* client at most once in the life of the process.
C26_Singleton ==
  /\ Allocated(clientLog) <= 1
  /\ SumValues([i \in DOMAIN clientLog |-> clientLog[i].created]) <= 1
  /\ \A i, j \in DOMAIN clientLog :
       clientLog[i].exc = "" /\ clientLog[j].exc = "" =>
         clientLog[i].object = clientLog[j].object

\* Witness of C26: the first SupabaseClient() call made the instance and
\* its client, and two later calls returned that instance.
C26_ThreeCallsOneClient ==
  /\ Len(clientLog) = 3
  /\ clientLog[1].allocated = 1
  /\ clientLog[1].created = 1
  /\ \A i \in 1..3 : clientLog[i].exc = "" /\ clientLog[i].object = 1

\* C30: a SupabaseClient() call that returns hands out an instance that
\* holds a client: after a failed first construction every later call
\* raises again or creates the client.
C30_NoHalfBuiltInstance ==
  \A i \in DOMAIN clientLog : clientLog[i].exc = "" => clientLog[i].inst = "client"

\* Between the i-th and the next get_current_cost of user u, both made on
\* one date, add_current_costs wrote for the user on that date, with
\* amount 0 only.
ZeroBetween(u, i) ==
  /\ i \in 1..(Len(readLog[u]) - 1)
  /\ readLog[u][i].today = readLog[u][i + 1].today
  /\ readLog[u][i].written < readLog[u][i + 1].written
  /\ \A k \in (readLog[u][i].written + 1)..readLog[u][i + 1].written :
       /\ ledgerLog[u][k].amount = 0
       /\ ledgerLog[u][k].date = readLog[u][i].today

\* C27: add_current_costs(0) does not change what get_current_cost
\* reports on the same day: the report made before it and the report made
\* after it are identical.
C27_ZeroAmountKeepsReport ==
  \A u \in Users : \A i \in 1..MaxReportCalls :
    ZeroBetween(u, i) => SameAnswer(readLog[u][i], readLog[u][i + 1])

\* The quantity the ledger log of user u holds for the events of method op.
LoggedQuantity(u, op) ==
  LET log == ledgerLog[u]
  IN  SumValues([i \in {j \in DOMAIN log : log[j].op = op} |-> log[i].qty])

\* The quantity the usage history holds for user u in category cat, all
\* days and sub-keys together.
StoredQuantity(history, u, cat) ==
  LET data == Select(history, u)
  IN  IF data = << >> THEN 0 ELSE StoredTotal(cat, data[1][cat], Days)

\* The event of handler p is the last charge written to the ledger.
Charged(p) ==
  LET l == local[p]
      log == ledgerLog[l.user]
  IN  /\ log # << >>
      /\ log[Len(log)] = [date |-> l.today, amount |-> l.cost, op |-> l.op,
                          qty |-> l.qty, sub |-> l.sub]
      /\ Select(current_costs, l.user) # << >>
      /\ Select(current_costs, l.user)[1].last_update = isoformat(l.today)

\* C28: an add_* method has charged the ledger when it comes to the usage
\* history; when the read or the write of the history fails the method
\* raises to its caller, no table changes (the charge stays) and the
\* history holds the user's logged quantity without the event.
C28_ChargeKeptWithoutEvent ==
  [][\A p \in Procs :
       pc[p] \in {"hist_read", "hist_write"} =>
         /\ Charged(p)
         /\ result'[p].kind = "raise" =>
              /\ pc'[p] = "idle"
              /\ tables' = tables
              /\ StoredQuantity(usage_history', local[p].user, Category(local[p].op))
                   <= LoggedQuantity(local[p].user, local[p].op) - local[p].qty]_vars

\* Witness of C28: the only call so far, an add_* method with a positive
\* cost, has raised; the ledger holds its charge and there is no history.
C28_ChargedButNotRecorded ==
  \E p \in Procs :
    /\ Idle
    /\ result[p].kind = "raise"
    /\ result[p].op \in AddOps
    /\ Len(ledgerLog[result[p].user]) = 1
    /\ ledgerLog[result[p].user][1].amount > 0
    /\ Len(current_costs) = 1
    /\ current_costs[1].all_time = ledgerLog[result[p].user][1].amount
    /\ usage_history = << >>

\* C29: every stored cost record has 0 <= day <= month <= all_time, and
\* every report of get_current_cost has
\* cost_today <= cost_month <= cost_all_time, for overlapping
\* add_current_costs calls with amounts that are not negative.
C29_DayMonthAllTimeOrdered ==
  /\ \A i \in DOMAIN current_costs :
       /\ 0 <= current_costs[i].day
       /\ current_costs[i].day <= current_costs[i].month
       /\ current_costs[i].month <= current_costs[i].all_time
  /\ \A u \in Users : \A i \in DOMAIN readLog[u] :
       readLog[u][i].kind = "return" =>
         /\ 0 <= readLog[u][i].value.cost_today
         /\ readLog[u][i].value.cost_today <= readLog[u][i].value.cost_month
         /\ readLog[u][i].value.cost_month <= readLog[u][i].value.cost_all_time

\* Witness of C29: after a charge in one month and a charge in the next
\* the record holds 0 < day = month < all_time, and get_current_cost has
\* reported these amounts.
C29_MonthBelowAllTime ==
  \E u \in Users :
    /\ Idle
    /\ Len(current_costs) = 1
    /\ 0 < current_costs[1].day
    /\ current_costs[1].month < current_costs[1].all_time
    /\ readLog[u] # << >>
    /\ readLog[u][Len(readLog[u])].value =
         [cost_today |-> current_costs[1].day, cost_month |-> current_costs[1].month,
          cost_all_time |-> current_costs[1].all_time]

\* ------------------------------------------------------------------------
\* The plugin manager alone: PluginManager(config) is built from any list
\* of enabled keys, with any plugin classes failing to construct, and
\* call_function is called with any function name
\* ------------------------------------------------------------------------
usage == << clock, column_default, users, current_costs, usage_history,
            user_settings, pc, local, result, ledgerLog, readLog,
            settingsLog, calls, client >>

RECURSIVE SeqsUpTo(_, _)
SeqsUpTo(S, n) ==
  IF n = 0 THEN {<< >>}
  ELSE LET shorter == SeqsUpTo(S, n - 1)
       IN  shorter \cup {Append(s, x) : s \in shorter, x \in S}

InitPlugins ==
  /\ clock = 1
  /\ column_default = Unset
  /\ users = << >>
  /\ current_costs = << >>
  /\ usage_history = << >>
  /\ user_settings = << >>
  /\ pc = [p \in Procs |-> "idle"]
  /\ local = [p \in Procs |-> NoLocal]
  /\ result = [p \in Procs |-> NoResult]
  /\ ledgerLog = [u \in Users |-> << >>]
  /\ readLog = [u \in Users |-> << >>]
  /\ settingsLog = [u \in Users |-> << >>]
  /\ calls = [u \in Users |-> 0]
  /\ env_ok = TRUE
  /\ _instance = "None"
  /\ clientLog = << >>
  /\ enabled_plugins \in SeqsUpTo(PluginKeys, MaxEnabled)
  /\ broken \in SUBSET plugin_mapping
  /\ plugins = initialize_plugins(enabled_plugins, broken)
  /\ pluginLog = << >>
  /\ config = DefaultConfig
  /\ configLog = << >>

Call_call_function ==
  \E function_name \in FunctionNames, outcome \in ExecuteOutcomes :
    LET r == call_function(plugins, function_name, outcome)
    IN  /\ Len(pluginLog) < MaxPluginCalls
        \* without a plugin to execute there is no outcome to choose
        /\ r.executed = << >> => outcome = "result"
        /\ pluginLog' = Append(pluginLog,
             [function_name |-> function_name,
              outcome |-> IF r.executed = << >> THEN "" ELSE outcome,
              executed |-> r.executed, exc |-> r.exc,
              returned |-> r.returned])
        /\ UNCHANGED << usage, enabled_plugins, broken, plugins, config,
                        configLog >>

NextPlugins == Call_call_function

SpecPlugins == InitPlugins /\ [][NextPlugins]_vars

Loadable(plugin_key) ==
  plugin_key \in plugin_mapping /\ plugin_key \notin broken

Declaring(function_name) ==
  {i \in DOMAIN plugins :
     \E j \in DOMAIN get_spec(plugins[i]) :
       get_spec(plugins[i])[j] = function_name}

\* C31: the loaded plugins are the enabled ones that could be built, in
\* enabled order; no call_function call raises; a call for a name no loaded
\* plugin declares executes nothing and returns an error object; any other
\* call executes exactly the first loaded plugin declaring the name, and
\* returns an error object when that execute raises and the plugin's
\* result when it returns one.
C31_CallFunctionNeverRaises ==
  /\ plugins = SelectSeq(enabled_plugins, Loadable)
  /\ \A n \in DOMAIN pluginLog :
       LET e == pluginLog[n]
           d == Declaring(e.function_name)
       IN  /\ e.exc = ""
           /\ IF d = {}
              THEN e.executed = << >> /\ e.returned.kind = "error"
              ELSE /\ Len(e.executed) = 1
                   /\ e.executed[1] \in d
                   /\ \A j \in d : e.executed[1] <= j
                   /\ e.outcome = "raise" => e.returned.kind = "error"
                   /\ e.outcome = "result"
                        => e.returned = ResultJson(e.executed[1])

\* Two loaded plugins declare the name: one call ran the first and got its
\* exception back as an error object, and one call for an undeclared name
\* returned the error object.
C31_FirstOfTwoAndNotFound ==
  \E m, n \in DOMAIN pluginLog :
    /\ Cardinality(Declaring(pluginLog[m].function_name)) = 2
    /\ pluginLog[m].executed = << 1 >>
    /\ pluginLog[m].outcome = "raise"
    /\ pluginLog[m].returned.kind = "error"
    /\ Declaring(pluginLog[n].function_name) = {}
    /\ pluginLog[n].returned.kind = "error"

\* ------------------------------------------------------------------------
\* The configuration object alone: update_config and get_config are called
\* with any key and value on the object BotConfig() built
\* ------------------------------------------------------------------------
InitConfig ==
  /\ clock = 1
  /\ column_default = Unset
  /\ users = << >>
  /\ current_costs = << >>
  /\ usage_history = << >>
  /\ user_settings = << >>
  /\ pc = [p \in Procs |-> "idle"]
  /\ local = [p \in Procs |-> NoLocal]
  /\ result = [p \in Procs |-> NoResult]
  /\ ledgerLog = [u \in Users |-> << >>]
  /\ readLog = [u \in Users |-> << >>]
  /\ settingsLog = [u \in Users |-> << >>]
  /\ calls = [u \in Users |-> 0]
  /\ env_ok = TRUE
  /\ _instance = "None"
  /\ clientLog = << >>
  /\ enabled_plugins = << >>
  /\ broken = {}
  /\ plugins = << >>
  /\ pluginLog = << >>
  /\ config = DefaultConfig
  /\ configLog = << >>

Call_update_config ==
  \E key \in ConfigKeys, value \in ConfigValues :
    LET r == update_config(config, key, value)
    IN  /\ Len(configLog) < MaxConfigCalls
        /\ config' = r.obj
        /\ configLog' = Append(configLog,
             [op |-> "update_config", key |-> key, value |-> value,
              exc |-> r.exc, returned |-> "None",
              before |-> config, after |-> r.obj])
        /\ UNCHANGED << usage, enabled_plugins, broken, plugins, pluginLog >>

Call_get_config ==
  \E key \in ConfigKeys :
    /\ Len(configLog) < MaxConfigCalls
    /\ configLog' = Append(configLog,
         [op |-> "get_config", key |-> key, value |-> "",
          exc |-> "", returned |-> get_config(config, key),
          before |-> config, after |-> config])
    /\ UNCHANGED << usage, enabled_plugins, broken, plugins, pluginLog,
                    config >>

NextConfig ==
  \/ Call_update_config
  \/ Call_get_config

SpecConfig == InitConfig /\ [][NextConfig]_vars

\* C32: every update_config call whose key is not a configuration field
\* raises and leaves the attributes of the object as they were; every
\* update_config call whose key is a configuration field returns, sets
\* that field and changes nothing else; every get_config call whose key is
\* not a configuration field returns None.
C32_UnknownKeyRejected ==
  \A n \in DOMAIN configLog :
    LET e == configLog[n]
    IN  /\ (e.op = "update_config" /\ e.key \notin ConfigFields)
             => e.exc = "AttributeError" /\ e.after = e.before
        /\ (e.op = "update_config" /\ e.key \in ConfigFields)
             => /\ e.exc = ""
                /\ DOMAIN e.after = DOMAIN e.before
                /\ e.after[e.key] = e.value
                /\ \A k \in DOMAIN e.before \ {e.key} :
                     e.after[k] = e.before[k]
        /\ (e.op = "get_config" /\ e.key \notin ConfigFields)
             => e.returned = "None"
====
